---------------------------- MODULE Spec2Model ----------------------------
(***************************************************************************)
(* A model of the hyper-arb price-evaluation and trade-decision pipeline.  *)
(*                                                                         *)
(* Two programs of the repository are modelled:                            *)
(*   - the arbitrager (src/src/arbitrager.rs with src/src/shd/dex/swap.rs  *)
(*     and swap_double_leg.rs): the block-polling loop `moni`, the         *)
(*     per-target evaluation `run`, and the trade functions;               *)
(*   - the market maker (src/inspi/impl.rs): the protocol-stream loop      *)
(*     `run` with `evaluate`, `readjust`, `prepare` and `execute`.         *)
(*                                                                         *)
(* f64 values are modelled as exact extended rationals (a numerator over a *)
(* non-negative denominator; denominator 0 encodes +inf, -inf and NaN), so *)
(* that division by a zero reference price and the comparisons at the      *)
(* thresholds behave as IEEE-754 does, rounding apart.                     *)
(***************************************************************************)
EXTENDS Integers, Sequences, FiniteSets, TLC

-----------------------------------------------------------------------------
(* ------------------------------ f64 ------------------------------------ *)

Abs(k) == IF k < 0 THEN -k ELSE k

Sgn(k) == IF k > 0 THEN 1 ELSE IF k < 0 THEN -1 ELSE 0

RECURSIVE Gcd(_, _)
Gcd(a, b) == IF b = 0 THEN a ELSE Gcd(b, a % b)

\* The f64 n/d, in lowest terms with d >= 0; n/0 is +inf, -inf or NaN (0/0).
F(n, d) ==
    IF d = 0 THEN [n |-> Sgn(n), d |-> 0]
    ELSE LET s == IF d < 0 THEN -1 ELSE 1
             g == Gcd(Abs(n), Abs(d))
         IN  [n |-> (s * n) \div g, d |-> (s * d) \div g]

FInt(k) == [n |-> k, d |-> 1]

FNaN == [n |-> 0, d |-> 0]

FIsNaN(x) == x.d = 0 /\ x.n = 0

FIsInf(x) == x.d = 0 /\ x.n # 0

FNeg(x) == [n |-> -x.n, d |-> x.d]

FAbs(x) == [n |-> Abs(x.n), d |-> x.d]

FMul(x, y) ==
    IF x.d = 0 \/ y.d = 0 THEN [n |-> Sgn(x.n) * Sgn(y.n), d |-> 0]
    ELSE LET g1 == Gcd(Abs(x.n), y.d)
             g2 == Gcd(Abs(y.n), x.d)
         IN  F((x.n \div g1) * (y.n \div g2), (x.d \div g2) * (y.d \div g1))

\* 1/y for a finite y.
FInv(y) == IF y.n < 0 THEN [n |-> -y.d, d |-> -y.n] ELSE [n |-> y.d, d |-> y.n]

FDiv(x, y) ==
    IF FIsNaN(x) \/ FIsNaN(y) THEN FNaN
    ELSE IF FIsInf(y) THEN (IF FIsInf(x) THEN FNaN ELSE FInt(0))
    ELSE IF FIsInf(x) THEN [n |-> IF y.n < 0 THEN -x.n ELSE x.n, d |-> 0]
    ELSE IF y.n = 0 THEN [n |-> Sgn(x.n), d |-> 0]
    ELSE FMul(x, FInv(y))

FSub(x, y) ==
    IF FIsNaN(x) \/ FIsNaN(y) THEN FNaN
    ELSE IF FIsInf(x) THEN (IF FIsInf(y) /\ x.n = y.n THEN FNaN ELSE x)
    ELSE IF FIsInf(y) THEN FNeg(y)
    ELSE LET g == Gcd(x.d, y.d)
         IN  F(x.n * (y.d \div g) - y.n * (x.d \div g), (x.d \div g) * y.d)

\* Comparisons: every comparison with NaN is false.
FLt(x, y) ==
    /\ ~FIsNaN(x)
    /\ ~FIsNaN(y)
    /\ IF FIsInf(x) \/ FIsInf(y)
       THEN (IF FIsInf(x) /\ FIsInf(y) THEN x.n < y.n
             ELSE IF FIsInf(x) THEN x.n < 0 ELSE y.n > 0)
       ELSE LET g == Gcd(x.d, y.d)
            IN  x.n * (y.d \div g) < y.n * (x.d \div g)

FGt(x, y) == FLt(y, x)

FLe(x, y) == ~FIsNaN(x) /\ ~FIsNaN(y) /\ ~FLt(y, x)

FGe(x, y) == FLe(y, x)


\* `x as u128`: truncation toward zero, saturating; NaN and negatives give 0.
\* (+inf saturates to u128::MAX, modelled by U128Sat.)
U128Sat == 2^31 - 1

AsU128(x) ==
    IF FIsNaN(x) \/ x.n <= 0 THEN 0
    ELSE IF FIsInf(x) THEN U128Sat
    ELSE x.n \div x.d

-----------------------------------------------------------------------------
(* --------------------- arbitrager: configuration ----------------------- *)

BASIS_POINT_DENO == 10000

INVENTORY_CHECK_INTERVAL_BLOCKS == 10

SWAP_GAS_UNITS == 150000

SLIPPAGE_PERCENT == 5

\* moni's polling interval in ms.
interval == 250

\* Option<T>: None is the empty sequence, Some(x) the sequence <<x>>.
None == <<>>

Some(x) == <<x>>

\* Result<T>: Ok(v) or Err.
Ok(v) == [ok |-> TRUE, v |-> v]

Err(v) == [ok |-> FALSE, v |-> v]

\* The fee tier the pool contract reports (hundredths of a basis point).
PoolFee(p) == IF p = 3 THEN 3000 ELSE 500

\* One statistical-arbitrage target and one double-leg target.  Pool
\* identifiers are their addresses, modelled by integers; the configured
\* order is deliberately not the identifier order.
Targets == <<
    [vault_name |-> "stat", statistical_arb |-> TRUE, reference |-> "Pyth",
     hyperswap_pools |-> <<3, 2>>, prjx_pools |-> <<1>>,
     min_watch_spread_bps |-> FInt(100),
     min_executable_spread_bps |-> FInt(95),
     max_inventory_ratio |-> F(1, 2),
     min_trade_value_usd |-> FInt(10),
     poll_interval_ms |-> 1000],
    [vault_name |-> "dleg", statistical_arb |-> FALSE, reference |-> "Hypercore",
     hyperswap_pools |-> <<3>>, prjx_pools |-> <<1>>,
     min_watch_spread_bps |-> FInt(100),
     min_executable_spread_bps |-> FInt(95),
     max_inventory_ratio |-> F(1, 2),
     min_trade_value_usd |-> FInt(10),
     poll_interval_ms |-> 1000] >>

\* config.gas.max_gas_price_gwei
max_gas_price_gwei == FInt(3)

\* The pools of a target in the order `run` visits them: the Hyperswap loop,
\* then the ProjectX loop.
RECURSIVE TagPools(_, _)
TagPools(dex, ps) ==
    IF ps = <<>> THEN <<>>
    ELSE <<[dex |-> dex, pool |-> Head(ps)]>> \o TagPools(dex, Tail(ps))

VisitOrder(tgt) ==
    TagPools("Hyperswap", tgt.hyperswap_pools) \o TagPools("ProjectX", tgt.prjx_pools)

-----------------------------------------------------------------------------
(* ----------------------- arbitrager: inputs ---------------------------- *)

\* First and last block number the RPC may report: from the block before an
\* inventory check to MaxBlock.
FirstBlock == INVENTORY_CHECK_INTERVAL_BLOCKS - 1
MaxBlock == 11
Blocks == FirstBlock..MaxBlock

\* What SystemTime::now() - time can be at a poll, in ms, next to the time
\* that has really passed since `time` was taken (at least one sleep of
\* `interval`): the two agree unless the system clock was adjusted in
\* between, forwards or backwards; after a backward adjustment past `time`
\* the difference is negative.
ClockAdjustments == {0, 200, 0 - 200, 0 - 900}
RealElapsed == {interval, interval + 50}
ElapsedReads ==
    {[real |-> r, wall |-> r + a] : r \in RealElapsed, a \in ClockAdjustments}

\* Results of the reference-price source: an error, or Ok(price).
RefPrices == {FInt(0), FInt(-400), FInt(400)}
RefReads == {Err(FNaN)} \cup {Ok(p) : p \in RefPrices}

\* Spot prices a pool read may give (base in quote), or an error.
PoolPrices == {FInt(395), FInt(404), FInt(406)}
PoolReads == {[st |-> "err", price |-> FNaN]}
                 \cup {[st |-> "ok", price |-> p] : p \in PoolPrices}

\* (base_value_usd, quote_value_usd) of the wallet at an inventory check.
InventoryValues == {<<1, 4>>, <<4, 1>>, <<9, 1>>, <<1, 9>>, <<1, 1>>, <<0, 0>>}
InventoryReads == {Err(<<0, 0>>)} \cup {Ok(v) : v \in InventoryValues}

\* Gas prices in units of 10^8 wei (so 10 is 1 gwei).
WeiUnitsPerGwei == 1000000000 \div 100000000
GasPrices == {10, 35, 45}
GasReads == {Err(0)} \cup {Ok(g) : g \in GasPrices}

HypePrices == {FInt(0), FInt(400)}
HypeReads == {Err(FNaN)} \cup {Ok(p) : p \in HypePrices}

\* Wallet balances (raw units; the modelled tokens have 0 decimals).
Balances == {[base |-> 0, quote |-> 0], [base |-> 20, quote |-> 20],
             [base |-> 40, quote |-> 16240]}
BalanceReads == {Err([base |-> 0, quote |-> 0])} \cup {Ok(b) : b \in Balances}

\* The router allowance of the token sold.
Allowances == {0, 2^30}

\* Outcome of sending the swap: sent and mined, send refused, receipt lost.
SendResults == {"ok", "send_err", "receipt_err", "no_receipt"}


-----------------------------------------------------------------------------
(* ------------------------ arbitrager: state ---------------------------- *)

VARIABLES
    pc,                 \* position of the monitoring task in moni / run
    last,               \* moni: Option<u64>, the last recorded block
    elapsedWall,        \* moni: SystemTime::now() - time, in ms
    elapsedReal,        \* the time really passed since `time`, in ms
    current,            \* run: the block number moni passed in
    ti,                 \* run: index of the target being processed
    pi,                 \* run: index of the pool being read
    reference_price,    \* run: the reference price of the target
    best_opportunity,   \* run: Option<(dex, pool, price, spread, fee, net, tier)>
    all_opportunities,  \* run: Vec<BestOpportunity> (double-leg)
    env_testing,        \* env.testing
    log                 \* history: what run did for the current target

arbVars == <<pc, last, elapsedWall, elapsedReal, current, ti, pi, reference_price,
             best_opportunity, all_opportunities, env_testing, log>>


-----------------------------------------------------------------------------
(* --------------------- arbitrager: pure functions ---------------------- *)

\* Variant of InventoryStatus whose range excludes its two ends.
InventoryStatus_Strict(base_value_usd, quote_value_usd) ==
    LET total_value_usd == base_value_usd + quote_value_usd
        base_percentage ==
            IF total_value_usd > 0
            THEN FMul(F(base_value_usd, total_value_usd), FInt(100)) ELSE FInt(0)
        quote_percentage ==
            IF total_value_usd > 0
            THEN FMul(F(quote_value_usd, total_value_usd), FInt(100)) ELSE FInt(0)
    IN  [base_percentage |-> base_percentage,
         quote_percentage |-> quote_percentage,
         is_balanced |-> /\ FGt(base_percentage, FInt(20))
                         /\ FLt(base_percentage, FInt(80))
                         /\ FGt(quote_percentage, FInt(20))
                         /\ FLt(quote_percentage, FInt(80))]

\* check_inventory_balance: the USD split of the wallet and is_balanced.
InventoryStatus(base_value_usd, quote_value_usd) ==
    LET total_value_usd == base_value_usd + quote_value_usd
        base_percentage ==
            IF total_value_usd > 0
            THEN FMul(F(base_value_usd, total_value_usd), FInt(100)) ELSE FInt(0)
        quote_percentage ==
            IF total_value_usd > 0
            THEN FMul(F(quote_value_usd, total_value_usd), FInt(100)) ELSE FInt(0)
    IN  [base_percentage |-> base_percentage,
         quote_percentage |-> quote_percentage,
         is_balanced |-> /\ FGe(base_percentage, FInt(20))
                         /\ FLe(base_percentage, FInt(80))
                         /\ FGe(quote_percentage, FInt(20))
                         /\ FLe(quote_percentage, FInt(80))]

\* The inventory check runs for double-leg targets every N blocks.
InventoryCheckDue(tgt, block) ==
    ~tgt.statistical_arb /\ block % INVENTORY_CHECK_INTERVAL_BLOCKS = 0

\* spread_bps, fee_bps and net_profit_bps of a pool read in run's pool loops.
SpreadBps(pool_price, ref) ==
    FMul(FDiv(FSub(pool_price, ref), ref), FInt(BASIS_POINT_DENO))

FeeBps(fee) == F(fee, 100)

NetProfitBps(spread_bps, fee_bps) == FSub(FAbs(spread_bps), fee_bps)

\* The test that lets a pool become the best opportunity.
Qualifies(tgt, spread_bps, net_profit_bps) ==
    /\ FGe(net_profit_bps, tgt.min_executable_spread_bps)
    /\ FGe(FAbs(spread_bps), tgt.min_watch_spread_bps)

\* (variant: a pool of equal net profit replaces the best one)
IsBetter_OrEqual(best, net_profit_bps) ==
    best = None \/ FGe(net_profit_bps, best[1].net_profit_bps)

\* "Update best opportunity if this pool is better".
IsBetter(best, net_profit_bps) ==
    best = None \/ FGt(net_profit_bps, best[1].net_profit_bps)

Opportunity(dex, pool, pool_price, ref) ==
    LET spread_bps == SpreadBps(pool_price, ref)
        fee_bps == FeeBps(PoolFee(pool))
    IN  [dex |-> dex, pool_address |-> pool, pool_price |-> pool_price,
         spread_bps |-> spread_bps, fee_bps |-> fee_bps,
         net_profit_bps |-> NetProfitBps(spread_bps, fee_bps),
         pool_fee_tier |-> PoolFee(pool)]

\* The double-leg collection takes every pool read, for Hypercore targets.
CollectsAll(tgt) == ~tgt.statistical_arb /\ tgt.reference = "Hypercore"


-----------------------------------------------------------------------------
(* ------------- swap.rs: execute_statistical_arbitrage ------------------ *)

\* SWAP_GAS_UNITS * gas_price_wei / 1e18, the gas price being given in units
\* of 10^8 wei.
GasCostHype(gas_units, gas) ==
    FMul(F(gas_units * gas, 1000000000), F(1, 10))

\* Steps 3, 5, 6 and 8: gas cost, direction, amount, value, minimum output.
StatArbPlan(opp, tgt, ref, gas, hype, bal) ==
    LET gas_cost_usd == FMul(GasCostHype(SWAP_GAS_UNITS, gas), hype)
        is_buy == FLt(opp.spread_bps, FInt(0))
        balance_raw == IF is_buy THEN bal.quote ELSE bal.base
        amount_in_raw == AsU128(FMul(FInt(balance_raw), tgt.max_inventory_ratio))
        amount_in_normalized == FInt(amount_in_raw)
        trade_value_usd == IF is_buy THEN amount_in_normalized
                           ELSE FMul(amount_in_normalized, ref)
        expected_output ==
            AsU128(IF is_buy THEN FDiv(amount_in_normalized, opp.pool_price)
                   ELSE FMul(amount_in_normalized, opp.pool_price))
    IN  [dex |-> opp.dex, pool_address |-> opp.pool_address,
         spread_bps |-> opp.spread_bps,
         is_buy |-> is_buy,
         sells |-> IF is_buy THEN "quote" ELSE "base",
         buys |-> IF is_buy THEN "base" ELSE "quote",
         amount_in |-> amount_in_raw,
         trade_value_usd |-> trade_value_usd,
         amount_out_min |-> (expected_output * (100 - SLIPPAGE_PERCENT)) \div 100,
         gas_price_wei |-> gas,
         gas_cost_usd |-> gas_cost_usd,
         net_profit_bps |-> opp.net_profit_bps,
         \* the figure step 9 logs: net profit after gas, in bps
         net_after_gas_bps |->
             FSub(opp.net_profit_bps,
                  FMul(FDiv(gas_cost_usd, trade_value_usd), FInt(10000)))]

NoPlan == <<>>

Outcome(ret, stage, plan, broadcast) ==
    [ret |-> ret, stage |-> stage, plan |-> plan, broadcast |-> broadcast]

\* The gas-price gate of step 1.
GasTooHigh(gas) == gas \div WeiUnitsPerGwei > AsU128(max_gas_price_gwei)

ExecuteStatisticalArbitrage(opp, tgt, ref, gasRes, hypeRes, balRes, allowance, testing, sendRes) ==
    IF ~gasRes.ok THEN Outcome("Err", "gas_rpc", NoPlan, FALSE)
    ELSE IF GasTooHigh(gasRes.v) THEN Outcome("Ok", "gas_high", NoPlan, FALSE)
    ELSE IF ~hypeRes.ok \/ ~FGt(hypeRes.v, FInt(0))
         THEN Outcome("Ok", "hype_price", NoPlan, FALSE)
    ELSE IF ~balRes.ok THEN Outcome("Err", "balance_rpc", NoPlan, FALSE)
    ELSE LET plan == StatArbPlan(opp, tgt, ref, gasRes.v, hypeRes.v, balRes.v)
         IN  IF FLt(plan.trade_value_usd, tgt.min_trade_value_usd)
                 THEN Outcome("Ok", "min_value", <<plan>>, FALSE)
             ELSE IF allowance < plan.amount_in
                 THEN Outcome("Ok", "allowance", <<plan>>, FALSE)
             ELSE IF testing THEN Outcome("Ok", "testing", <<plan>>, FALSE)
             ELSE IF sendRes = "send_err"
                 THEN Outcome("Err", "send", <<plan>>, FALSE)
             ELSE IF sendRes = "receipt_err"
                 THEN Outcome("Err", "receipt", <<plan>>, TRUE)
             ELSE IF sendRes = "no_receipt"
                 \* pending.get_receipt().await has no timeout
                 THEN Outcome("Pending", "receipt", <<plan>>, TRUE)
             ELSE Outcome("Ok", "sent", <<plan>>, TRUE)

(* ------------- swap_double_leg.rs: prepare_double_leg_arbitrage -------- *)

MinU(a, b) == IF a < b THEN a ELSE b

PrepareDoubleLegArbitrage(buy, sell, tgt, ref, gasRes, hypeRes, balRes) ==
    IF ~gasRes.ok THEN Outcome("Err", "gas_rpc", NoPlan, FALSE)
    ELSE IF GasTooHigh(gasRes.v) THEN Outcome("Err", "gas_high", NoPlan, FALSE)
    ELSE IF ~hypeRes.ok \/ ~FGt(hypeRes.v, FInt(0))
         THEN Outcome("Err", "hype_price", NoPlan, FALSE)
    ELSE IF ~balRes.ok THEN Outcome("Err", "balance_rpc", NoPlan, FALSE)
    ELSE LET gas_cost_usd == FMul(GasCostHype(SWAP_GAS_UNITS * 2, gasRes.v), hypeRes.v)
             max_quote_spend ==
                 AsU128(FMul(FInt(balRes.v.quote), tgt.max_inventory_ratio))
             max_base_sell ==
                 AsU128(FMul(FInt(balRes.v.base), tgt.max_inventory_ratio))
             expected_base_raw ==
                 AsU128(FDiv(FInt(max_quote_spend), buy.pool_price))
             base_amount_to_trade == MinU(expected_base_raw, max_base_sell)
             base_normalized == FInt(base_amount_to_trade)
             quote_amount_for_buy == AsU128(FMul(base_normalized, buy.pool_price))
             trade_value_usd == FMul(base_normalized, ref)
             buy_cost == FMul(base_normalized, buy.pool_price)
             sell_revenue == FMul(base_normalized, sell.pool_price)
             expected_profit_usd == FSub(FSub(sell_revenue, buy_cost), gas_cost_usd)
             plan == [buy_leg |-> buy, sell_leg |-> sell,
                      amount_in_buy |-> quote_amount_for_buy,
                      amount_in_sell |-> base_amount_to_trade,
                      trade_value_usd |-> trade_value_usd,
                      expected_profit_usd |-> expected_profit_usd,
                      gas_price_wei |-> gasRes.v,
                      gas_cost_usd |-> gas_cost_usd]
         IN  IF FLt(trade_value_usd, tgt.min_trade_value_usd)
                 THEN Outcome("Err", "min_value", <<plan>>, FALSE)
             ELSE IF FLe(expected_profit_usd, FInt(0))
                 THEN Outcome("Err", "no_profit", <<plan>>, FALSE)
             ELSE Outcome("Ok", "prepared", <<plan>>, FALSE)

\* Iterator::min_by keeps the first of several minima, Iterator::max_by the
\* last of several maxima.
MinByPrice(s) ==
    LET i == CHOOSE k \in 1..Len(s) :
                 /\ \A j \in 1..Len(s) : ~FLt(s[j].pool_price, s[k].pool_price)
                 /\ \A j \in 1..(k - 1) : FLt(s[k].pool_price, s[j].pool_price)
    IN  s[i]

MaxByPrice(s) ==
    LET i == CHOOSE k \in 1..Len(s) :
                 /\ \A j \in 1..Len(s) : ~FGt(s[j].pool_price, s[k].pool_price)
                 /\ \A j \in (k + 1)..Len(s) : FGt(s[k].pool_price, s[j].pool_price)
    IN  s[i]

\* The double-leg pair of the collected pools, and its net profit in bps.
DoubleLegPair(all) ==
    LET buy == MinByPrice(all)
        sell == MaxByPrice(all)
        spread_profit ==
            FMul(FDiv(FSub(sell.pool_price, buy.pool_price), buy.pool_price),
                 FInt(BASIS_POINT_DENO))
        total_fees == F(buy.fee_bps.n * sell.fee_bps.d + sell.fee_bps.n * buy.fee_bps.d,
                        buy.fee_bps.d * sell.fee_bps.d)
    IN  [buy |-> buy, sell |-> sell,
         profitable |-> FGt(sell.pool_price, buy.pool_price),
         net_profit |-> FSub(spread_profit, total_fees)]

-----------------------------------------------------------------------------
(* ------------- market maker: state ------------------------------------- *)

VARIABLES
    mpc,                        \* position of the market maker in run
    ready,                      \* self.ready
    previous_reference_price,   \* run: the last reference price acted on
    readjusments,               \* run: what evaluate returned for this update
    orders,                     \* run: the order kept after readjust and sort
    components,                 \* run: the components of this connection
    first,                      \* no message of this connection was received yet
    announced,                  \* history: pairs of its first message, not removed since
    filtered,                   \* history: pools the bootstrap filtered out
    sincePoll                   \* now - last_poll at the last message, in ms

mmVars == <<mpc, ready, previous_reference_price, readjusments, orders,
            components, first, announced, filtered, sincePoll>>

\* The position and tick helpers are called one at a time.
VARIABLES
    lastCall                    \* the last call: None, or Some([fn, args, result])

libVars == <<lastCall>>

vars == <<arbVars, mmVars, libVars>>

-----------------------------------------------------------------------------
(* ------------- arbitrager.rs: moni and run ------------------------------ *)

BlockReads == {Err(0)} \cup {Ok(b) : b \in Blocks}

Event(ev, data) == [ev |-> ev, data |-> data]

InitArb ==
    /\ lastCall = None
    /\ pc = "poll"
    /\ last = None
    /\ elapsedWall = 0
    /\ elapsedReal = 0
    /\ current = 0
    /\ ti = 0
    /\ pi = 0
    /\ reference_price = FNaN
    /\ best_opportunity = None
    /\ all_opportunities = <<>>
    /\ env_testing \in BOOLEAN
    /\ log = <<>>
    /\ mpc = "off"
    /\ ready = FALSE
    /\ components = <<>>
    /\ first = TRUE
    /\ announced = {}
    /\ filtered = {}
    /\ sincePoll = 0
    /\ previous_reference_price = FInt(0)
    /\ readjusments = <<>>
    /\ orders = <<>>

\* The locals of one target's iteration go out of scope.
DropLocals ==
    /\ pi' = 0
    /\ reference_price' = FNaN
    /\ best_opportunity' = None
    /\ all_opportunities' = <<>>

\* `continue`, or the end of the loop body: the next target, or run returns
\* and moni records the block and restarts its clock.
NextTarget ==
    /\ DropLocals
    /\ IF ti < Len(Targets)
       THEN /\ ti' = ti + 1
            /\ pc' = "target"
            /\ UNCHANGED <<last, elapsedWall, elapsedReal>>
       ELSE /\ ti' = 0
            /\ pc' = "sleep"
            /\ last' = Some(current)
            /\ elapsedWall' = 0
            /\ elapsedReal' = 0

\* (variant: a block number equal to the recorded one counts as new)
NewBlock_OrSame(cur, prev) == cur >= prev

\* moni: `current > prev`.
NewBlock(cur, prev) == cur > prev

\* moni: one read of the block number and the decision to run.
ArbPoll ==
    /\ pc = "poll"
    /\ \E res \in BlockReads :
          /\ log' = <<Event("poll", [ok |-> res.ok, block |-> res.v, last |-> last,
                                    wall |-> elapsedWall, real |-> elapsedReal])>>
          /\ IF ~res.ok
             THEN /\ pc' = "sleep"
                  /\ UNCHANGED <<last, current, ti, elapsedWall, elapsedReal>>
             ELSE /\ current' = res.v
                  /\ IF last = None
                     THEN /\ last' = Some(res.v)
                          /\ pc' = "sleep"
                          /\ UNCHANGED <<ti, elapsedWall, elapsedReal>>
                     ELSE IF elapsedWall < 0
                     THEN \* time.elapsed() is Err and is unwrapped
                          /\ pc' = "panicked"
                          /\ UNCHANGED <<last, ti, elapsedWall, elapsedReal>>
                     ELSE IF elapsedWall > interval /\ NewBlock(res.v, last[1])
                     THEN \* run is called; `elapsed` is not read again
                          /\ pc' = "target"
                          /\ ti' = 1
                          /\ elapsedWall' = 0
                          /\ elapsedReal' = 0
                          /\ UNCHANGED last
                     ELSE /\ pc' = "sleep"
                          /\ UNCHANGED <<last, ti, elapsedWall, elapsedReal>>
    /\ UNCHANGED <<pi, reference_price, best_opportunity,
                   all_opportunities, env_testing>>
    /\ UNCHANGED mmVars
    /\ UNCHANGED libVars

\* moni: the sleep that ends every iteration; the wall clock moves.
ArbSleep ==
    /\ pc = "sleep"
    /\ \E e \in ElapsedReads : elapsedWall' = e.wall /\ elapsedReal' = e.real
    /\ pc' = "poll"
    /\ log' = <<>>
    /\ UNCHANGED <<last, current, ti, pi, reference_price, best_opportunity,
                   all_opportunities, env_testing>>
    /\ UNCHANGED mmVars
    /\ UNCHANGED libVars

\* The inventory is read only when the check is due.
NotRead == Ok(<<1, 1>>)

\* run: the head of one target's iteration, up to the reference price.
ArbTargetStart ==
    /\ pc = "target"
    /\ LET tgt == Targets[ti]
           due == InventoryCheckDue(tgt, current)
       IN
       \E inv \in IF due THEN InventoryReads ELSE {NotRead} :
          LET status == InventoryStatus(inv.v[1], inv.v[2])
              checked == <<Event("target", [ti |-> ti])>>
                         \o (IF due
                             THEN <<Event("inventory",
                                          [ok |-> inv.ok, values |-> inv.v,
                                           status |-> status])>>
                             ELSE <<>>)
          IN  IF due /\ (~inv.ok \/ ~status.is_balanced)
              THEN /\ log' = checked \o <<Event("skip", [why |-> "inventory"])>>
                   /\ NextTarget
              ELSE \E wallet \in BOOLEAN :
                   IF ~wallet
                   THEN /\ log' = checked \o <<Event("skip", [why |-> "wallet"])>>
                        /\ NextTarget
                   ELSE \E ref \in RefReads :
                        IF ~ref.ok
                        THEN /\ log' = checked
                                        \o <<Event("skip", [why |-> "reference"])>>
                             /\ NextTarget
                        ELSE /\ log' = checked
                                        \o <<Event("reference", [price |-> ref.v])>>
                             /\ reference_price' = ref.v
                             /\ best_opportunity' = None
                             /\ all_opportunities' = <<>>
                             /\ pi' = 1
                             /\ pc' = "pools"
                             /\ UNCHANGED <<ti, last, elapsedWall, elapsedReal>>
    /\ UNCHANGED <<current, env_testing>>
    /\ UNCHANGED mmVars
    /\ UNCHANGED libVars

\* run: one pool of the Hyperswap loop or of the ProjectX loop.
ArbPool ==
    /\ pc = "pools"
    /\ LET tgt == Targets[ti]
           visit == VisitOrder(tgt)[pi]
       IN  \E r \in PoolReads :
              IF r.st = "ok"
              THEN LET opp == Opportunity(visit.dex, visit.pool, r.price,
                                          reference_price)
                       qualifies == Qualifies(tgt, opp.spread_bps, opp.net_profit_bps)
                       taken == qualifies /\ IsBetter(best_opportunity, opp.net_profit_bps)
                   IN  /\ best_opportunity' =
                              IF taken THEN Some(opp) ELSE best_opportunity
                       /\ all_opportunities' =
                              IF CollectsAll(tgt) THEN Append(all_opportunities, opp)
                              ELSE all_opportunities
                       /\ log' = Append(log, Event("eval",
                              [opp |-> opp, qualifies |-> qualifies, taken |-> taken]))
              ELSE UNCHANGED <<best_opportunity, all_opportunities, log>>
    /\ IF pi < Len(VisitOrder(Targets[ti]))
       THEN pi' = pi + 1 /\ pc' = "pools"
       ELSE pi' = pi /\ pc' = "decide"
    /\ UNCHANGED <<last, elapsedWall, elapsedReal, current, ti,
                   reference_price, env_testing>>
    /\ UNCHANGED mmVars
    /\ UNCHANGED libVars

\* Variant of StatEvents in which the swap is sent before the trade is sized.
StatEvents_SendFirst(out) ==
    (IF out.broadcast THEN <<Event("tx", out.plan[1])>> ELSE <<>>)
    \o (IF out.plan # NoPlan THEN <<Event("size", out.plan[1])>> ELSE <<>>)
    \o (IF out.stage \in {"min_value", "allowance", "testing", "gas_high", "hype_price"}
        THEN <<Event("skip", [why |-> out.stage])>> ELSE <<>>)
    \o (IF out.ret = "Err" THEN <<Event("error", [why |-> out.stage])>> ELSE <<>>)
    \o (IF out.ret = "Pending" THEN <<Event("await", [why |-> out.stage])>> ELSE <<>>)

\* The events of one call of execute_statistical_arbitrage.
StatEvents(out) ==
    (IF out.plan # NoPlan THEN <<Event("size", out.plan[1])>> ELSE <<>>)
    \o (IF out.stage \in {"min_value", "allowance", "testing", "gas_high", "hype_price"}
        THEN <<Event("skip", [why |-> out.stage])>> ELSE <<>>)
    \o (IF out.broadcast THEN <<Event("tx", out.plan[1])>> ELSE <<>>)
    \o (IF out.ret = "Err" THEN <<Event("error", [why |-> out.stage])>> ELSE <<>>)
    \o (IF out.ret = "Pending" THEN <<Event("await", [why |-> out.stage])>> ELSE <<>>)

\* The events of one call of prepare_double_leg_arbitrage.
DoubleLegEvents(out) ==
    (IF out.plan # NoPlan THEN <<Event("size_pair", out.plan[1])>> ELSE <<>>)
    \o (IF out.ret = "Ok" THEN <<Event("prepared", out.plan[1])>> ELSE <<>>)
    \o (IF out.ret = "Err" THEN <<Event("error", [why |-> out.stage])>> ELSE <<>>)

\* What the calls made for the best opportunity can log, over every result
\* of the reads they make; a read that is not reached is not made.
GasGateStops(gasRes) == ~gasRes.ok \/ GasTooHigh(gasRes.v)

HypeGateStops(hypeRes) == ~hypeRes.ok \/ ~FGt(hypeRes.v, FInt(0))

StatOutcomes(best, tgt) ==
    LET call(gasRes, hypeRes, balRes, allowance, sendRes) ==
            StatEvents(ExecuteStatisticalArbitrage(best, tgt, reference_price,
                gasRes, hypeRes, balRes, allowance, env_testing, sendRes))
    IN  UNION {
          IF GasGateStops(gasRes)
          THEN {call(gasRes, Err(FNaN), Err([base |-> 0, quote |-> 0]), 0, "ok")}
          ELSE UNION {
                 IF HypeGateStops(hypeRes)
                 THEN {call(gasRes, hypeRes, Err([base |-> 0, quote |-> 0]), 0, "ok")}
                 ELSE {call(gasRes, hypeRes, balRes, allowance, sendRes) :
                          balRes \in BalanceReads, allowance \in Allowances,
                          sendRes \in SendResults}
                 : hypeRes \in HypeReads}
          : gasRes \in GasReads}

DoubleLegOutcomes(pair, tgt) ==
    LET call(gasRes, hypeRes, balRes) ==
            DoubleLegEvents(PrepareDoubleLegArbitrage(pair.buy, pair.sell, tgt,
                reference_price, gasRes, hypeRes, balRes))
    IN  UNION {
          IF GasGateStops(gasRes)
          THEN {call(gasRes, Err(FNaN), Err([base |-> 0, quote |-> 0]))}
          ELSE UNION {
                 IF HypeGateStops(hypeRes)
                 THEN {call(gasRes, hypeRes, Err([base |-> 0, quote |-> 0]))}
                 ELSE {call(gasRes, hypeRes, balRes) : balRes \in BalanceReads}
                 : hypeRes \in HypeReads}
          : gasRes \in GasReads}

\* The call has not returned and never will: its last event is the await.
Hangs(evs) == evs # <<>> /\ evs[Len(evs)].ev = "await"

\* run: what is done with the best opportunity of the target.
ArbDecide ==
    /\ pc = "decide"
    /\ LET tgt == Targets[ti] IN
          IF best_opportunity = None
          THEN log' = Append(log, Event("none", [why |-> "criteria"]))
          ELSE LET best == best_opportunity[1] IN
               IF ~FGe(best.net_profit_bps, tgt.min_executable_spread_bps)
               THEN log' = Append(log, Event("none", [why |-> "threshold"]))
               ELSE IF tgt.statistical_arb
               THEN \E evs \in StatOutcomes(best, tgt) :
                       log' = Append(log, Event("best", best)) \o evs
               ELSE IF tgt.reference = "Hypercore"
               THEN LET pair == DoubleLegPair(all_opportunities) IN
                    IF ~pair.profitable
                    THEN log' = Append(log, Event("best", best))
                    ELSE IF ~FGe(pair.net_profit, tgt.min_executable_spread_bps)
                    THEN log' = Append(log, Event("best", best))
                                \o <<Event("none", [why |-> "double_leg"])>>
                    ELSE \E evs \in DoubleLegOutcomes(pair, tgt) :
                            log' = Append(log, Event("best", best)) \o evs
               ELSE log' = Append(log, Event("none", [why |-> "unsupported"]))
    /\ IF Hangs(log')
       THEN /\ pc' = "hung"
            /\ UNCHANGED <<ti, pi, last, elapsedWall, elapsedReal, reference_price,
                           best_opportunity, all_opportunities>>
       ELSE NextTarget
    /\ UNCHANGED <<current, env_testing>>
    /\ UNCHANGED mmVars
    /\ UNCHANGED libVars

NextArb == ArbPoll \/ ArbSleep \/ ArbTargetStart \/ ArbPool \/ ArbDecide

SpecArb == InitArb /\ [][NextArb]_vars

-----------------------------------------------------------------------------
(* ------------- market maker: configuration and inputs ------------------ *)

\* MarketMakerConfig of the modelled instance.
MMConfig ==
    [min_watch_spread_bps |-> FInt(100),
     min_executable_spread_bps |-> FInt(95),
     max_slippage_pct |-> F(1, 200),
     max_inventory_ratio |-> F(1, 2),
     poll_interval_ms |-> 1000,
     skip_simulation |-> FALSE,
     infinite_approval |-> FALSE]

MIN_AMOUNT_WORTH_USD == 10
PRICE_MOVE_THRESHOLD == 1

\* The monitored components, in the order of `components`.
MMPools == <<2, 1>>

\* Results of protosim.spot_price for one component.
MMSpotReads == {Err(FNaN)} \cup {Ok(FInt(p)) : p \in {395, 404, 406}}

\* now - last_poll at the arrival of a stream message, in ms.
PollGaps == {500, 1000}

\* What the stream yields: a message, an error, or its end.
StreamItems == {"msg", "err", "closed"}

\* fetch_market_context: no context, a failed read of the latest block, or a
\* context (gas price in units of 10^8 wei).
ContextReads ==
    {[st |-> "none", eth_to_usd |-> FNaN, native_gas_price |-> 0],
     [st |-> "block_err", eth_to_usd |-> FNaN, native_gas_price |-> 0],
     [st |-> "ok", eth_to_usd |-> FInt(0), native_gas_price |-> 10],
     [st |-> "ok", eth_to_usd |-> FInt(400), native_gas_price |-> 10]}

\* In a context the base token is the gas token and the quote token is USD.
base_to_eth == FInt(1)
quote_to_eth == F(1, 400)

\* fetch_inventory.
MMInventoryReads ==
    {Err([base_balance |-> 0, quote_balance |-> 0, nonce |-> 0]),
     Ok([base_balance |-> 0, quote_balance |-> 16240, nonce |-> 7]),
     Ok([base_balance |-> 40, quote_balance |-> 16240, nonce |-> 8])}

\* What the pool answers for one adjustment: the balances, the optimal
\* quantity and the quote (amount out, gas units) of that quantity.
Quote(st, qty, out, gas) ==
    [st |-> st, optimal_qty |-> qty, amount_out |-> out, gas_units |-> gas]

QuoteReads(base_to_quote) ==
    {Quote("no_balances", FNaN, FNaN, 0), Quote("pool_empty", FNaN, FNaN, 0),
     Quote("opt_err", FNaN, FNaN, 0), Quote("quote_err", FInt(10), FNaN, 0)}
    \cup (IF base_to_quote
          THEN {Quote("ok", FInt(10), FInt(4038), 0),
                Quote("ok", FInt(10), FInt(4038), SWAP_GAS_UNITS),
                Quote("ok", FInt(10), FInt(4050), SWAP_GAS_UNITS),
                Quote("ok", FInt(10), FInt(4060), SWAP_GAS_UNITS),
                Quote("ok", F(1, 40), F(2019, 200), 0)}
          ELSE {Quote("ok", FInt(3962), FInt(10), 0),
                Quote("ok", FInt(3950), F(200003, 20000), SWAP_GAS_UNITS)})

-----------------------------------------------------------------------------
(* ------------- impl.rs: evaluate ---------------------------------------- *)

\* One pool of evaluate: the readjustment pushed for it, if any.
EvaluatePool(pool, spot, reference) ==
    LET spread == FSub(spot, reference)
        spread_bps == FMul(FDiv(spread, reference), FInt(BASIS_POINT_DENO))
        adj(direction, selling, buying) ==
            [pool |-> pool, direction |-> direction, selling |-> selling,
             buying |-> buying, spot |-> spot, reference |-> reference,
             spread_bps |-> spread_bps]
    IN  IF FGt(FAbs(spread_bps), MMConfig.min_watch_spread_bps)
        THEN IF FGt(spread_bps, FInt(0))
             THEN <<adj("Buy", "base", "quote")>>
             ELSE <<adj("Sell", "quote", "base")>>
        ELSE <<>>

RECURSIVE EvaluateFrom(_, _, _, _)
EvaluateFrom(i, targets, sps, reference) ==
    IF i > Len(targets) THEN <<>>
    ELSE EvaluatePool(targets[i], sps[i], reference)
         \o EvaluateFrom(i + 1, targets, sps, reference)

evaluate(targets, sps, reference) ==
    IF sps = <<>> \/ Len(targets) # Len(sps) THEN <<>>
    ELSE EvaluateFrom(1, targets, sps, reference)

\* prices: the spot prices that could be read, failed reads being dropped.
RECURSIVE prices(_)
prices(reads) ==
    IF reads = <<>> THEN <<>>
    ELSE (IF Head(reads).ok THEN <<Head(reads).v>> ELSE <<>>) \o prices(Tail(reads))

-----------------------------------------------------------------------------
(* ------------- impl.rs: readjust ---------------------------------------- *)

\* slice::sort_by is stable: s ordered by ascending key, equal keys keeping
\* their order.
StableSort(s, keys) ==
    LET n == Len(s)
        Rank(i) ==
            1 + Cardinality({j \in 1..n : FLt(keys[j], keys[i])})
              + Cardinality({j \in 1..(i - 1) :
                                ~FLt(keys[j], keys[i]) /\ ~FLt(keys[i], keys[j])})
    IN  [r \in 1..n |-> s[CHOOSE i \in 1..n : Rank(i) = r]]

FAdd(x, y) == FSub(x, FNeg(y))

\* The body of the loop of readjust for one adjustment: the order pushed, or
\* the reason why none is.
ReadjustOne(adjustment, context, inventory, q) ==
    LET base_to_quote == adjustment.direction = "Buy"
        inventory_balance == IF base_to_quote THEN inventory.base_balance
                             ELSE inventory.quote_balance
        selling_amount == q.optimal_qty
        buying_amount == IF base_to_quote THEN FMul(selling_amount, adjustment.spot)
                         ELSE FDiv(selling_amount, adjustment.spot)
        selling_amount_worth_eth ==
            FMul(selling_amount, IF base_to_quote THEN base_to_eth ELSE quote_to_eth)
        selling_amount_worth_usd == FMul(selling_amount_worth_eth, context.eth_to_usd)
        amount_out_normalized == q.amount_out
        gas_cost_eth == GasCostHype(q.gas_units, context.native_gas_price)
        gas_cost_usd == FMul(gas_cost_eth, context.eth_to_usd)
        gas_cost_in_output == IF base_to_quote THEN FDiv(gas_cost_eth, quote_to_eth)
                              ELSE FDiv(gas_cost_eth, base_to_eth)
        average_sell_price_net_gas ==
            IF base_to_quote
            THEN FDiv(FSub(amount_out_normalized, gas_cost_in_output), selling_amount)
            ELSE FDiv(FInt(1),
                      FDiv(FSub(amount_out_normalized, gas_cost_in_output),
                           selling_amount))
        potential_profit_delta ==
            IF base_to_quote
            THEN FSub(average_sell_price_net_gas, adjustment.reference)
            ELSE FSub(adjustment.reference, average_sell_price_net_gas)
        potential_profit_delta_spread_bps ==
            FMul(FDiv(potential_profit_delta, adjustment.reference),
                 FInt(BASIS_POINT_DENO))
        is_opportunity_valid ==
            FGt(potential_profit_delta_spread_bps, MMConfig.min_executable_spread_bps)
        order == [adjustment |-> adjustment,
                  base_to_quote |-> base_to_quote,
                  selling_amount |-> selling_amount,
                  amount_out_normalized |-> amount_out_normalized,
                  gas_cost_usd |-> gas_cost_usd,
                  selling_worth_usd |-> selling_amount_worth_usd,
                  profit_delta_bps |-> potential_profit_delta_spread_bps]
        \* quotes: how many times get_amount_out was called for the adjustment
        none(why) == [order |-> <<>>, why |-> why,
                      quotes |-> IF why = "quote_err" THEN 1 ELSE 0]
    IN  IF q.st \in {"no_balances", "pool_empty"} THEN none(q.st)
        ELSE IF FLe(context.eth_to_usd, FInt(0)) THEN none("eth_to_usd")
        ELSE IF inventory_balance = 0 THEN none("inventory")
        ELSE IF q.st = "opt_err" THEN none("opt_err")
        ELSE IF ~FGt(selling_amount_worth_usd, FInt(MIN_AMOUNT_WORTH_USD))
             THEN none("worth")
        ELSE IF q.st = "quote_err" THEN none("quote_err")
        ELSE IF ~is_opportunity_valid
             THEN [order |-> <<order>>, why |-> "profit", quotes |-> 1]
        ELSE [order |-> <<order>>, why |-> "valid", quotes |-> 1]

\* The events of one adjustment: the sizing, and why it was dropped if it was.
ReadjustEvents(r, adjustment) ==
    IF r.why = "valid"
    THEN <<Event("mm_size", [order |-> r.order[1], pushed |-> TRUE])>>
    ELSE IF r.why = "profit"
    THEN <<Event("mm_size", [order |-> r.order[1], pushed |-> FALSE]),
           Event("mm_drop", [pool |-> adjustment.pool, why |-> r.why, quotes |-> r.quotes])>>
    ELSE <<Event("mm_drop", [pool |-> adjustment.pool, why |-> r.why, quotes |-> r.quotes])>>

\* readjust: the adjustments sorted by spread, each one sized with the answer
\* qs[i] of its pool; the orders pushed and the events logged.
RECURSIVE ReadjustFrom(_, _, _, _, _)
ReadjustFrom(i, sorted, context, inventory, qs) ==
    IF i > Len(sorted) THEN [orders |-> <<>>, events |-> <<>>]
    ELSE LET r == ReadjustOne(sorted[i], context, inventory, qs[i])
             rest == ReadjustFrom(i + 1, sorted, context, inventory, qs)
         IN  [orders |-> (IF r.why = "valid" THEN r.order ELSE <<>>) \o rest.orders,
              events |-> ReadjustEvents(r, sorted[i]) \o rest.events]

SortedBySpread(adjustments) ==
    StableSort(adjustments, [i \in 1..Len(adjustments) |-> adjustments[i].spread_bps])

readjust(context, inventory, adjustments, qs) ==
    ReadjustFrom(1, SortedBySpread(adjustments), context, inventory, qs)

\* (variant: the orders left in the order readjust pushed them)
SortedByProfit_Unsorted(os) == os

\* run: the orders sorted by descending profit_delta_bps.
SortedByProfit(os) ==
    StableSort(os, [i \in 1..Len(os) |-> FNeg(os[i].profit_delta_bps)])

-----------------------------------------------------------------------------
(* ------------- impl.rs: run --------------------------------------------- *)

InitMM ==
    /\ lastCall = None
    /\ mpc = "connect"
    /\ ready = FALSE
    /\ components = <<>>
    /\ first = TRUE
    /\ announced = {}
    /\ filtered = {}
    /\ sincePoll = MMConfig.poll_interval_ms
    /\ previous_reference_price = FInt(0)
    /\ readjusments = <<>>
    /\ orders = <<>>
    /\ env_testing \in BOOLEAN
    /\ log = <<>>
    /\ pc = "off"
    /\ last = None
    /\ elapsedWall = 0
    /\ elapsedReal = 0
    /\ current = 0
    /\ ti = 0
    /\ pi = 0
    /\ reference_price = FNaN
    /\ best_opportunity = None
    /\ all_opportunities = <<>>

arbLocals == <<pc, last, elapsedWall, elapsedReal, current, ti, pi, reference_price,
               best_opportunity, all_opportunities>>

\* The outer loop: the stream is built, and with it the locals of a connection.
MMConnect ==
    /\ mpc = "connect"
    /\ \E built \in BOOLEAN :
          mpc' = IF built THEN "stream" ELSE "returned"
    /\ previous_reference_price' = FInt(0)
    /\ log' = <<>>
    /\ components' = <<>>
    /\ first' = TRUE
    /\ announced' = {}
    /\ UNCHANGED <<ready, readjusments, orders, env_testing, filtered, sincePoll>>
    /\ UNCHANGED arbLocals
    /\ UNCHANGED libVars

\* The events of evaluate: one per target, saying whether it was pushed.
EvalEvents(targets, sps, reference) ==
    [i \in 1..Len(targets) |->
        LET e == EvaluatePool(targets[i], sps[i], reference)
        IN  Event("mm_eval",
                  [pool |-> targets[i], spot |-> sps[i],
                   spread_bps |-> FMul(FDiv(FSub(sps[i], reference), reference),
                                       FInt(BASIS_POINT_DENO)),
                   emitted |-> e # <<>>,
                   adjustment |-> e])]

price_move_bps(reference) ==
    IF previous_reference_price # FInt(0)
    THEN FMul(FDiv(FAbs(FSub(reference, previous_reference_price)),
                   previous_reference_price), FInt(BASIS_POINT_DENO))
    ELSE FInt(PRICE_MOVE_THRESHOLD + 1)

\* The stream ends or fails: the inner loop is left and the stream rebuilt.
MMStreamEnd ==
    /\ mpc = "stream"
    /\ \E item \in StreamItems \ {"msg"} : mpc' = "connect"
    /\ log' = <<>>
    /\ UNCHANGED <<ready, previous_reference_price, readjusments, orders, env_testing>>
    /\ UNCHANGED <<components, first, announced, filtered, sincePoll>>
    /\ UNCHANGED arbLocals
    /\ UNCHANGED libVars

\* The first message of a connection is the full snapshot: it announces every
\* pair, in the order of its keys. Every message carries the state of the
\* pairs it announces.
FullMsg == [new_pairs |-> MMPools, removed_pairs |-> {}]

\* The later messages are deltas: no new pair, and pool 1 removed or not.
DeltaMsgs == {[new_pairs |-> <<>>, removed_pairs |-> r] : r \in {{}, {1}}}

StreamMsgs == IF first THEN {FullMsg} ELSE DeltaMsgs

\* Spot prices of the pools at the bootstrap: pool 2 near the reference,
\* pool 1 near it, at the limit of the filter, or beyond it.
BootSpotReads == {[p \in {1, 2} |-> IF p = 1 THEN FInt(s) ELSE FInt(404)] : s \in {404, 440, 480}}

PERCENT_MULTIPLIER == 100
MAX_POOL_PRICE_DEVIATION_PCT == 10

\* The bootstrap's test of a pool: it is pushed to target_components.
WithinDeviation(spot_price, reference) ==
    LET price_deviation == FMul(FDiv(FAbs(FSub(spot_price, reference)), reference),
                                FInt(PERCENT_MULTIPLIER))
    IN  FLe(price_deviation, FInt(MAX_POOL_PRICE_DEVIATION_PCT))

Elems(seq) == {seq[i] : i \in 1..Len(seq)}

\* Vec::swap_remove: the last element takes the place of the removed one.
swap_remove(seq, pos) ==
    [i \in 1..(Len(seq) - 1) |-> IF i = pos THEN seq[Len(seq)] ELSE seq[i]]

RECURSIVE RemovePairs(_, _)
RemovePairs(comps, removed) ==
    IF removed \cap Elems(comps) = {} THEN comps
    ELSE LET pos == CHOOSE i \in 1..Len(comps) : comps[i] \in removed
         IN  RemovePairs(swap_remove(comps, pos), removed)

RECURSIVE AddPairs(_, _)
AddPairs(comps, new_pairs) ==
    IF new_pairs = <<>> THEN comps
    ELSE AddPairs(IF Head(new_pairs) \in Elems(comps) THEN comps
                  ELSE Append(comps, Head(new_pairs)), Tail(new_pairs))

\* The steady branch: new pairs are added or overwritten, old pairs removed.
UpdateComponents(comps, msg) == RemovePairs(AddPairs(comps, msg.new_pairs), msg.removed_pairs)

\* now - last_poll when a message arrives dt ms after the one before.
MaxGap == 2000
Gap(dt) == IF sincePoll + dt > MaxGap THEN MaxGap ELSE sincePoll + dt

PollSkips(gap) == gap < MMConfig.poll_interval_ms

\* A message of the stream while the instance is not ready.
MMBootstrap ==
    /\ mpc = "stream"
    /\ ~ready
    /\ \E msg \in StreamMsgs, dt \in PollGaps, ref \in RefReads, spots \in BootSpotReads :
          /\ sincePoll' = Gap(dt)
          /\ announced' = IF first THEN Elems(msg.new_pairs)
                          ELSE announced \ msg.removed_pairs
          /\ IF ref.ok /\ FGt(ref.v, FInt(0))
             THEN /\ components' = msg.new_pairs
                  /\ filtered' = {c \in Elems(msg.new_pairs) :
                                     ~WithinDeviation(spots[c], ref.v)}
                  /\ ready' = TRUE
                  /\ log' = <<Event("mm_boot", [full |-> first])>>
             ELSE \* continue: the message is dropped
                  /\ log' = <<Event("mm_skip", [why |-> "boot_reference"])>>
                  /\ UNCHANGED <<components, filtered, ready>>
    /\ first' = FALSE
    /\ mpc' = "done"
    /\ UNCHANGED <<previous_reference_price, readjusments, orders, env_testing>>
    /\ UNCHANGED arbLocals
    /\ UNCHANGED libVars

\* A message in steady state, up to the reading of the clock: the components
\* are brought up to date and now - last_poll is taken.
MMArrive ==
    /\ mpc = "stream"
    /\ ready
    /\ \E msg \in StreamMsgs, dt \in PollGaps :
          /\ components' = UpdateComponents(components, msg)
          /\ announced' = IF first THEN Elems(msg.new_pairs)
                          ELSE announced \ msg.removed_pairs
          /\ filtered' = filtered \ msg.removed_pairs
          /\ sincePoll' = Gap(dt)
    /\ first' = FALSE
    /\ mpc' = "polling"
    /\ log' = <<>>
    /\ UNCHANGED <<ready, previous_reference_price, readjusments, orders, env_testing>>
    /\ UNCHANGED arbLocals
    /\ UNCHANGED libVars

\* A block update in steady state, from the poll test up to and including
\* evaluate; the targets are the components, which all hold both tokens.
MMUpdate ==
    /\ mpc = "polling"
    /\ LET targets == components
       IN
       IF PollSkips(sincePoll)
       THEN /\ log' = <<Event("mm_skip", [why |-> "poll_interval"])>>
            /\ mpc' = "done"
            /\ UNCHANGED <<previous_reference_price, readjusments, sincePoll>>
       ELSE /\ sincePoll' = 0
            /\ \E ref \in RefReads \cup {Ok(F(10001, 25))} :  \* and 400.04, 1 bps above 400
                  IF ~ref.ok
                  THEN /\ log' = <<Event("mm_skip", [why |-> "reference"])>>
                       /\ mpc' = "done"
                       /\ UNCHANGED <<previous_reference_price, readjusments>>
                  ELSE IF ~FGt(price_move_bps(ref.v), FInt(PRICE_MOVE_THRESHOLD))
                  THEN /\ log' = <<Event("mm_skip", [why |-> "price_move", price |-> ref.v])>>
                       /\ mpc' = "done"
                       /\ UNCHANGED <<previous_reference_price, readjusments>>
                  ELSE \E reads \in [1..Len(targets) -> MMSpotReads] :
                       LET sps == prices(reads)
                           adjs == evaluate(targets, sps, ref.v)
                       IN  /\ previous_reference_price' = ref.v
                           /\ readjusments' = adjs
                           /\ log' = <<Event("reference", [price |-> ref.v])>>
                                      \o (IF Len(sps) = Len(targets)
                                          THEN EvalEvents(targets, sps, ref.v)
                                          ELSE <<>>)
                           /\ mpc' = IF adjs = <<>> THEN "done" ELSE "evaluated"
    /\ UNCHANGED <<ready, orders, env_testing, components, first, announced, filtered>>
    /\ UNCHANGED arbLocals
    /\ UNCHANGED libVars

\* A block update in steady state, continued: the market context, the
\* inventory, readjust, and the choice of the order to execute.
MMReadjust ==
    /\ mpc = "evaluated"
    /\ \E context \in ContextReads :
          IF context.st = "block_err"
          THEN \* the failed read of the latest block is unwrapped
               /\ mpc' = "panicked"
               /\ UNCHANGED <<log, orders, readjusments>>
          ELSE IF context.st = "none"
          THEN /\ mpc' = "done"
               /\ log' = Append(log, Event("mm_skip", [why |-> "context"]))
               /\ readjusments' = <<>>
               /\ UNCHANGED orders
          ELSE \E inventory \in MMInventoryReads :
               IF ~inventory.ok
               THEN /\ mpc' = "done"
                    /\ log' = Append(log, Event("mm_skip", [why |-> "inventory"]))
                    /\ readjusments' = <<>>
                    /\ UNCHANGED orders
               ELSE LET sorted == SortedBySpread(readjusments) IN
                    \E qs \in {f \in [1..Len(sorted) ->
                                        QuoteReads(TRUE) \cup QuoteReads(FALSE)] :
                                  \A i \in 1..Len(sorted) :
                                     f[i] \in QuoteReads(sorted[i].direction = "Buy")} :
                    LET r == readjust(context, inventory.v, readjusments, qs)
                        kept == SortedByProfit(r.orders)
                    IN  /\ readjusments' = <<>>
                        /\ IF r.orders = <<>>
                           THEN /\ mpc' = "done"
                                /\ log' = log \o r.events
                                /\ UNCHANGED orders
                           ELSE /\ mpc' = "sized"
                                /\ log' = log \o r.events
                                              \o <<Event("mm_select", kept[1])>>
                                /\ orders' = <<[order |-> kept[1],
                                                inventory |-> inventory.v]>>
    /\ UNCHANGED <<ready, previous_reference_price, env_testing>>
    /\ UNCHANGED <<components, first, announced, filtered, sincePoll>>
    /\ UNCHANGED arbLocals
    /\ UNCHANGED libVars

\* Variant of TradeTxRequest in which the swap takes the nonce of the approval.
TradeTxRequest_SameNonce(infinite_approval, order, inventory) ==
    LET approval == IF ~infinite_approval
                    THEN <<[kind |-> "approval", nonce |-> Some(inventory.nonce),
                            order |-> order]>>
                    ELSE <<>>
    IN  [approve |-> approval,
         swap |-> [kind |-> "swap", nonce |-> Some(inventory.nonce),
                   order |-> order]]

\* trade_tx_request: the approval and the swap of one order, with their nonces.
TradeTxRequest(infinite_approval, order, inventory) ==
    LET approval == IF ~infinite_approval
                    THEN <<[kind |-> "approval", nonce |-> Some(inventory.nonce),
                            order |-> order]>>
                    ELSE <<>>
    IN  [approve |-> approval,
         swap |-> [kind |-> "swap",
                   nonce |-> Some(inventory.nonce
                                  + (IF approval # <<>> THEN 1 ELSE 0)),
                   order |-> order]]

trade_tx_request(order, inventory) ==
    TradeTxRequest(MMConfig.infinite_approval, order, inventory)

\* The execution strategy of the network, and what the encoder and the chain
\* answer during prepare and execute.
ExecReads ==
    [strategy : {"Default", "Mainnet"},
     encoded : BOOLEAN, simulation : {"err", "failed", "ok"},
     approval_sent : BOOLEAN, swap : SendResults]

\* broadcast of one prepared trade: the transactions sent, in order.
broadcast(trade, simulated, x) ==
    IF env_testing THEN <<>>
    ELSE IF simulated /\ x.simulation = "failed" THEN <<>>
    ELSE (IF trade.approve # <<>> /\ x.approval_sent
          THEN <<Event("mm_tx", trade.approve[1])>> ELSE <<>>)
         \o (IF x.swap # "send_err" THEN <<Event("mm_tx", trade.swap)>> ELSE <<>>)

\* MainnetExec::broadcast of one prepared trade: the transactions of the
\* bundle sent, in order.  x.swap and x.approval_sent are here the results of
\* encode_request for the swap and for the approval.
mainnet_broadcast(trade, x) ==
    IF env_testing THEN <<>>
    ELSE IF x.swap = "send_err" THEN <<Event("mm_error", [why |-> "encode_swap"])>>
    ELSE (IF trade.approve # <<>> /\ x.approval_sent
          THEN <<Event("mm_tx", trade.approve[1])>> ELSE <<>>)
         \o <<Event("mm_tx", trade.swap)>>

\* prepare and execute of the kept order.
ExecuteEvents(kept, x) ==
    IF ~x.encoded THEN <<Event("mm_skip", [why |-> "encode"])>>
    ELSE LET trade == trade_tx_request(kept.order, kept.inventory)
             simulated == ~MMConfig.skip_simulation
         IN  <<Event("mm_inventory", kept.inventory), Event("mm_prepare", trade)>>
             \o (IF simulated /\ x.simulation = "err"
                 THEN <<Event("mm_error", [why |-> "simulation"])>>
                 ELSE (IF simulated
                       THEN <<Event("mm_simulated", [status |-> x.simulation = "ok",
                                                 strategy |-> x.strategy])>>
                       ELSE <<>>)
                      \o (IF x.strategy = "Mainnet" THEN mainnet_broadcast(trade, x)
                          ELSE broadcast(trade, simulated, x)))

MMExecute ==
    /\ mpc = "sized"
    /\ \E evs \in {ExecuteEvents(orders[1], x) : x \in ExecReads} :
          log' = log \o evs
    /\ mpc' = "done"
    /\ orders' = <<>>
    /\ UNCHANGED <<ready, previous_reference_price, readjusments, env_testing>>
    /\ UNCHANGED <<components, first, announced, filtered, sincePoll>>
    /\ UNCHANGED arbLocals
    /\ UNCHANGED libVars

\* The end of the loop body: the next message of the stream is awaited.
MMAwait ==
    /\ mpc = "done"
    /\ mpc' = "stream"
    /\ log' = <<>>
    /\ UNCHANGED <<ready, previous_reference_price, readjusments, orders, env_testing>>
    /\ UNCHANGED <<components, first, announced, filtered, sincePoll>>
    /\ UNCHANGED arbLocals
    /\ UNCHANGED libVars

NextMM ==
    \/ MMConnect
    \/ MMStreamEnd
    \/ MMBootstrap
    \/ MMArrive
    \/ MMUpdate
    \/ MMReadjust
    \/ MMExecute
    \/ MMAwait

SpecMM == InitMM /\ [][NextMM]_vars

-----------------------------------------------------------------------------
(* ------------- u3pos.rs: position helpers -------------------------------- *)

\* Ticks of a position and of the pool, tick_lower < tick_upper.
PositionTicks == {[tick_lower |-> l, tick_upper |-> u, current_tick |-> c] :
                     l \in {0 - 2, 0}, u \in {2, 4}, c \in (0 - 3)..5}

is_position_in_range(tick_lower, tick_upper, current_tick) ==
    current_tick >= tick_lower /\ current_tick < tick_upper

\* (token0 share, token1 share); the mixed case is DEFAULT_RATIO_SPLIT each.
calculate_position_ratio(tick_lower, tick_upper, current_tick) ==
    IF current_tick <= tick_lower THEN <<F(1, 1), F(0, 1)>>
    ELSE IF current_tick >= tick_upper THEN <<F(0, 1), F(1, 1)>>
    ELSE <<F(1, 2), F(1, 2)>>

\* calculate_position_amounts: the status, and which amounts are non-zero.
\* tick_to_sqrt_price is strictly increasing in the tick, so the sign of a
\* difference of two sqrt prices is the sign of the difference of the ticks.
calculate_position_amounts(current_tick, tick_lower, tick_upper) ==
    IF current_tick < tick_lower
    THEN [status |-> "BelowRange", amount0 |-> Sgn(tick_upper - tick_lower),
          amount1 |-> 0]
    ELSE IF current_tick >= tick_upper
    THEN [status |-> "AboveRange", amount0 |-> 0,
          amount1 |-> Sgn(tick_upper - tick_lower)]
    ELSE [status |-> "InRange", amount0 |-> Sgn(tick_upper - current_tick),
          amount1 |-> Sgn(current_tick - tick_lower)]

\* Fee tiers: the four known ones, and two that are not.
Fees == {100, 500, 3000, 10000, 2500, 0}

\* u3pos.rs, used by the rebalance planner: (spacing, warning logged).
get_tick_spacing_for_fee(fee) ==
    [spacing |-> CASE fee = 100 -> 1
                   [] fee = 500 -> 10
                   [] fee = 3000 -> 60
                   [] fee = 10000 -> 200
                   [] OTHER -> 60,
     warned |-> FALSE]

\* mint.rs, mint_new_position: the spacing the ticks are aligned to.
mint_tick_spacing(fee) ==
    [spacing |-> CASE fee = 100 -> 1
                   [] fee = 500 -> 10
                   [] fee = 3000 -> 60
                   [] fee = 10000 -> 200
                   [] OTHER -> 10,
     warned |-> fee \notin {100, 500, 3000, 10000}]

\* Prices of the tick conversions are carried by their logarithm: a price p is
\* the integer 100 * log_1.0001(p), so that multiplying prices adds, dividing
\* subtracts, and ln(p) / ln(1.0001) is the value over LogUnit.
LogUnit == 100

\* 10_f64 in that unit: 100 * ln(10) / ln(1.0001) = 2302700.22.
LOG_TEN == 2302700

\* f64::round, half away from zero, of x / LogUnit.
RoundLog(x) ==
    IF x >= 0 THEN (2 * x + LogUnit) \div (2 * LogUnit)
    ELSE 0 - ((2 * (0 - x) + LogUnit) \div (2 * LogUnit))

\* pool_data.rs: price = 1.0001^tick * 10^(decimals0 - decimals1).
tick_to_price_internal(tick, token0_decimals, token1_decimals) ==
    LET MIN_TICK == 0 - 887272
        MAX_TICK == 887272
        \* The smallest and the largest finite positive f64, and 1e-20.
        LOG_F64_MIN == 0 - 744477293
        LOG_F64_MAX == 709818201
        LOG_FLOOR_PRICE == 0 - 46054004
        clamped_tick == IF tick < MIN_TICK THEN MIN_TICK
                        ELSE IF tick > MAX_TICK THEN MAX_TICK ELSE tick
        unscaled_price == IF clamped_tick > 100000 \/ clamped_tick < 0 - 100000
                          THEN clamped_tick * LogUnit
                          ELSE clamped_tick * LogUnit
        decimal_adjustment == (token0_decimals - token1_decimals) * LOG_TEN
        result == unscaled_price + decimal_adjustment
    IN  IF result < LOG_F64_MIN \/ result > LOG_F64_MAX
        THEN LOG_FLOOR_PRICE
        ELSE result

tick_to_price(tick, token0_decimals, token1_decimals) ==
    tick_to_price_internal(tick, token0_decimals, token1_decimals)

\* pool_data.rs: the price is divided by 10^(decimals1 - decimals0).
price_to_tick(price, token0_decimals, token1_decimals) ==
    LET decimals_diff == token1_decimals - token0_decimals
        adjusted_price == price - decimals_diff * LOG_TEN
    IN  RoundLog(adjusted_price)

\* u3pos.rs: the price is divided by 10^(decimals0 - decimals1).
price_to_tick_with_decimals(price, token0_decimals, token1_decimals) ==
    LET decimal_adjustment == (token0_decimals - token1_decimals) * LOG_TEN
        unscaled_price == price - decimal_adjustment
    IN  RoundLog(unscaled_price)

\* Ticks on both sides of the powi / exp switch and at the ends of the
\* interval, and token decimals equal and different.
RoundTripTicks == {0 - 700000, 0 - 100001, 0 - 100000, 0 - 1, 0, 1, 100000, 100001, 700000}
TokenDecimals == {<<18, 18>>, <<18, 6>>, <<6, 18>>, <<8, 18>>}

\* i32 division: the quotient is truncated toward zero (b > 0).
TruncDiv(a, b) == IF a >= 0 THEN a \div b ELSE 0 - ((0 - a) \div b)

\* (target_range_bps / 2) / 100 * 10000 / ln(1.0001) as i32: 500024.9996 ticks
\* for one basis point, truncated toward zero (exact for |bps| < 2380).
HALF_TICKS_PER_BPS == 500025
half_range_ticks(target_range_bps) ==
    IF target_range_bps = 0 THEN 0
    ELSE IF target_range_bps > 0 THEN target_range_bps * HALF_TICKS_PER_BPS - 1
    ELSE target_range_bps * HALF_TICKS_PER_BPS + 1

\* The ratio of the in-range branch comes from the square-root prices; it is
\* an input here, in_range_ratio.
calculate_optimal_amounts_for_range(total_value_usd, current_tick, tick_lower, tick_upper, token0_usd_price, token1_usd_price, in_range_ratio) ==
    LET ratio == IF current_tick < tick_lower THEN <<FInt(1), FInt(0)>>
                 ELSE IF current_tick >= tick_upper THEN <<FInt(0), FInt(1)>>
                 ELSE in_range_ratio
        optimal_value0_usd == FMul(total_value_usd, ratio[1])
        optimal_value1_usd == FMul(total_value_usd, ratio[2])
    IN  <<IF FGt(token0_usd_price, FInt(0))
          THEN FDiv(optimal_value0_usd, token0_usd_price) ELSE FInt(0),
          IF FGt(token1_usd_price, FInt(0))
          THEN FDiv(optimal_value1_usd, token1_usd_price) ELSE FInt(0)>>

\* The planner, from the totals available (position amounts plus wallet).
calculate_rebalancing_with_wallet(current_tick, total_available0, total_available1, token0_usd_price, token1_usd_price, target_range_bps, fee, in_range_ratio) ==
    LET total_value_usd == FAdd(FMul(total_available0, token0_usd_price),
                                FMul(total_available1, token1_usd_price))
        tick_spacing == get_tick_spacing_for_fee(fee).spacing
        half == half_range_ticks(target_range_bps)
        target_tick_lower == TruncDiv(current_tick - half, tick_spacing) * tick_spacing
        target_tick_upper == TruncDiv(current_tick + half, tick_spacing) * tick_spacing
        optimal == calculate_optimal_amounts_for_range(total_value_usd, current_tick,
                       target_tick_lower, target_tick_upper, token0_usd_price,
                       token1_usd_price, in_range_ratio)
        swap_amount_token0 == FSub(total_available0, optimal[1])
        swap_amount_token1 == FSub(total_available1, optimal[2])
        swap_direction ==
            IF /\ FLt(FAbs(swap_amount_token0), F(1, 10000))
               /\ FLt(FAbs(swap_amount_token1), F(1, 10000))
            THEN "NoSwapNeeded"
            ELSE IF FGt(swap_amount_token0, FInt(0)) THEN "Token0ToToken1"
            ELSE "Token1ToToken0"
    IN  [total_value_usd |-> total_value_usd,
         tick_spacing |-> tick_spacing,
         half_range_ticks |-> half,
         target_tick_lower |-> target_tick_lower,
         target_tick_upper |-> target_tick_upper,
         swap_direction |-> swap_direction,
         swap_amount_token0 |-> swap_amount_token0,
         swap_amount_token1 |-> swap_amount_token1]

\* Calls of the planner: ticks of both signs, ranges of 0, 1 and 1000 bps,
\* empty and funded totals, priced and unpriced tokens.
PlannerInputs ==
    {[current_tick |-> c, target_range_bps |-> b, fee |-> f,
      total_available0 |-> FInt(a[1]), total_available1 |-> FInt(a[2]),
      token0_usd_price |-> FInt(p[1]), token1_usd_price |-> FInt(p[2])] :
        c \in {0 - 7, 5, 120}, b \in {0, 1, 1000}, f \in {500, 3000},
        a \in {<<0, 0>>, <<5, 0>>, <<5, 3>>}, p \in {<<0, 0>>, <<2, 1>>}}

InitLib ==
    /\ lastCall = None
    /\ pc = "off"
    /\ mpc = "off"
    /\ last = None
    /\ elapsedWall = 0
    /\ elapsedReal = 0
    /\ current = 0
    /\ ti = 0
    /\ pi = 0
    /\ reference_price = FNaN
    /\ best_opportunity = None
    /\ all_opportunities = <<>>
    /\ env_testing = FALSE
    /\ log = <<>>
    /\ ready = FALSE
    /\ components = <<>>
    /\ first = TRUE
    /\ announced = {}
    /\ filtered = {}
    /\ sincePoll = MMConfig.poll_interval_ms
    /\ previous_reference_price = FInt(0)
    /\ readjusments = <<>>
    /\ orders = <<>>

Called(fn, args, result) ==
    /\ pc = "off" /\ mpc = "off"
    /\ lastCall' = Some([fn |-> fn, args |-> args, result |-> result])
    /\ UNCHANGED <<arbVars, mmVars>>

CallIsPositionInRange ==
    \E a \in PositionTicks :
       Called("is_position_in_range", a,
              is_position_in_range(a.tick_lower, a.tick_upper, a.current_tick))

CallPositionRatio ==
    \E a \in PositionTicks :
       Called("calculate_position_ratio", a,
              calculate_position_ratio(a.tick_lower, a.tick_upper, a.current_tick))

CallPositionAmounts ==
    \E a \in PositionTicks :
       Called("calculate_position_amounts", a,
              calculate_position_amounts(a.current_tick, a.tick_lower, a.tick_upper))

CallTickSpacingForFee ==
    \E fee \in Fees :
       Called("get_tick_spacing_for_fee", [fee |-> fee], get_tick_spacing_for_fee(fee))

CallMintTickSpacing ==
    \E fee \in Fees :
       Called("mint_new_position", [fee |-> fee], mint_tick_spacing(fee))

CallPriceToTick ==
    \E t \in RoundTripTicks, d \in TokenDecimals :
       LET price == tick_to_price(t, d[1], d[2])
       IN  Called("price_to_tick", [tick |-> t, dec0 |-> d[1], dec1 |-> d[2]],
                  [price |-> price, tick |-> price_to_tick(price, d[1], d[2])])

CallPriceToTickWithDecimals ==
    \E t \in RoundTripTicks, d \in TokenDecimals :
       LET price == tick_to_price(t, d[1], d[2])
       IN  Called("price_to_tick_with_decimals", [tick |-> t, dec0 |-> d[1], dec1 |-> d[2]],
                  [price |-> price, tick |-> price_to_tick_with_decimals(price, d[1], d[2])])

CallRebalancing ==
    \E a \in PlannerInputs :
       Called("calculate_rebalancing_with_wallet", a,
              calculate_rebalancing_with_wallet(a.current_tick, a.total_available0,
                  a.total_available1, a.token0_usd_price, a.token1_usd_price,
                  a.target_range_bps, a.fee, <<F(1, 4), F(3, 4)>>))

NextLib ==
    \/ CallIsPositionInRange
    \/ CallPositionRatio
    \/ CallPositionAmounts
    \/ CallTickSpacingForFee
    \/ CallMintTickSpacing
    \/ CallPriceToTick
    \/ CallPriceToTickWithDecimals
    \/ CallRebalancing


-----------------------------------------------------------------------------

Init == InitArb \/ InitMM \/ InitLib

Next == NextArb \/ NextMM \/ NextLib

Spec == Init /\ [][Next]_vars

-----------------------------------------------------------------------------
(* ------------- properties ------------------------------------------------ *)

\* The positions of the log, and those holding an event of one kind.
Pos == 1..Len(log)

At(kind) == {i \in Pos : log[i].ev = kind}

\* The target whose iteration the log records.
LogTarget == Targets[log[1].data.ti]

\* The emission rule as the specification states it: both thresholds are
\* inclusive, and the net profit is the absolute spread less the pool fee.
SpecEmits(spread_bps, fee_bps, min_watch, min_exec) ==
    /\ FGe(FAbs(spread_bps), min_watch)
    /\ FGe(FSub(FAbs(spread_bps), fee_bps), min_exec)

\* C1: in one evaluation of a target a pool is emitted as an opportunity if
\* and only if |spread_bps| >= min_watch_spread_bps and |spread_bps| - fee_bps
\* >= min_executable_spread_bps, a value equal to a threshold being emitted.
\* This is the statement of the specification; the market maker's evaluate
\* does not satisfy it.
C1_EmittedIffBothThresholds ==
    /\ \A i \in At("eval") :
          log[i].data.qualifies <=>
              SpecEmits(log[i].data.opp.spread_bps, log[i].data.opp.fee_bps,
                        LogTarget.min_watch_spread_bps,
                        LogTarget.min_executable_spread_bps)
    /\ \A i \in At("mm_eval") :
          log[i].data.emitted <=>
              SpecEmits(log[i].data.spread_bps, FeeBps(PoolFee(log[i].data.pool)),
                        MMConfig.min_watch_spread_bps,
                        MMConfig.min_executable_spread_bps)


\* C2: in one evaluation step at most one trade plan is emitted for a target,
\* it is the plan of the opportunity with the greatest net profit among those
\* that survived, and no transaction is prepared or sent for any other
\* opportunity of the step.
C2_OnlyTheBestPlan ==
    /\ Cardinality(At("tx")) <= 1
    /\ Cardinality(At("prepared")) <= 1
    /\ \A i \in At("size") \cup At("tx") :
          /\ \A k \in At("best") :
                log[i].data.pool_address = log[k].data.pool_address
          /\ \A j \in At("eval") :
                log[j].data.qualifies =>
                    FGe(log[i].data.net_profit_bps, log[j].data.opp.net_profit_bps)
    /\ Cardinality(At("mm_select")) <= 1
    /\ Cardinality(At("mm_prepare")) <= 1
    /\ Cardinality({i \in At("mm_tx") : log[i].data.kind = "swap"}) <= 1
    /\ Cardinality({i \in At("mm_tx") : log[i].data.kind = "approval"}) <= 1
    /\ \A i \in At("mm_select") :
          \A j \in At("mm_size") :
             log[j].data.pushed =>
                 FGe(log[i].data.profit_delta_bps,
                     log[j].data.order.profit_delta_bps)
    /\ \A i \in At("mm_tx") :
          /\ At("mm_select") # {}
          /\ \A k \in At("mm_select") : log[i].data.order = log[k].data
    /\ \A i \in At("mm_prepare") :
          \A k \in At("mm_select") : log[i].data.swap.order = log[k].data

\* Two orders of different profit survived readjust and a swap was sent.
C2_Witness ==
    /\ \E j1, j2 \in At("mm_size") :
          /\ log[j1].data.pushed
          /\ log[j2].data.pushed
          /\ FLt(log[j1].data.order.profit_delta_bps,
                 log[j2].data.order.profit_delta_bps)
    /\ \E i \in At("mm_tx") : log[i].data.kind = "swap"


\* C3: no trade is prepared, emitted or executed unless its plan is profitable
\* (net_profit_bps >= min_executable_spread_bps and sell_amount_usd >=
\* min_trade_value_usd), a plan failing either bound ends without transaction,
\* and a plan that meets both bounds, even exactly, is allowed.  This is the
\* statement of the specification; the market maker's readjust does not
\* satisfy it.
C3_TradeIffProfitable ==
    /\ \A i \in At("tx") :
          /\ FGe(log[i].data.net_profit_bps, LogTarget.min_executable_spread_bps)
          /\ FGe(log[i].data.trade_value_usd, LogTarget.min_trade_value_usd)
    /\ \A i \in At("prepared") :
          FGe(log[i].data.trade_value_usd, LogTarget.min_trade_value_usd)
    /\ \A i \in At("size") :
          (/\ FGe(log[i].data.net_profit_bps, LogTarget.min_executable_spread_bps)
           /\ FGe(log[i].data.trade_value_usd, LogTarget.min_trade_value_usd))
          => \A j \in At("skip") : log[j].data.why # "min_value"
    /\ \A i \in At("mm_size") :
          log[i].data.pushed <=>
              (/\ FGe(log[i].data.order.profit_delta_bps,
                      MMConfig.min_executable_spread_bps)
               /\ FGe(log[i].data.order.selling_worth_usd,
                      FInt(MIN_AMOUNT_WORTH_USD)))
    /\ \A i \in At("mm_tx") :
          /\ FGe(log[i].data.order.profit_delta_bps,
                 MMConfig.min_executable_spread_bps)
          /\ FGe(log[i].data.order.selling_worth_usd, FInt(MIN_AMOUNT_WORTH_USD))

\* C4: the direction of an opportunity is Buy (the wallet spends quote and
\* receives base) exactly when spread_bps < 0, and Sell (the wallet sells base
\* for quote) for every other spread.  This is the statement of the
\* specification; the market maker's evaluate does not satisfy it.
C4_BuyIffPoolCheaper ==
    /\ \A i \in At("size") :
          /\ log[i].data.is_buy <=> FLt(log[i].data.spread_bps, FInt(0))
          /\ log[i].data.is_buy =>
                log[i].data.sells = "quote" /\ log[i].data.buys = "base"
          /\ ~log[i].data.is_buy =>
                log[i].data.sells = "base" /\ log[i].data.buys = "quote"
    /\ \A i \in At("mm_eval") :
          log[i].data.emitted =>
             LET adj == log[i].data.adjustment[1]
             IN  /\ adj.direction = "Buy" <=> FLt(adj.spread_bps, FInt(0))
                 /\ adj.direction = "Buy" =>
                       adj.selling = "quote" /\ adj.buying = "base"
                 /\ adj.direction = "Sell" =>
                       adj.selling = "base" /\ adj.buying = "quote"


\* The qualifying pools of the log, and the surviving orders of the log.
Qualifying == {j \in At("eval") : log[j].data.qualifies}

Pushed == {j \in At("mm_size") : log[j].data.pushed}

FEq(x, y) == ~FLt(x, y) /\ ~FLt(y, x) /\ ~FIsNaN(x) /\ ~FIsNaN(y)

\* The order of the specification: greater net profit, then lower fee tier,
\* then lower pool identifier.
SpecPrefers(net1, tier1, id1, net2, tier2, id2) ==
    \/ FGt(net1, net2)
    \/ FEq(net1, net2) /\ tier1 < tier2
    \/ FEq(net1, net2) /\ tier1 = tier2 /\ id1 <= id2

\* C5 as the specification states it: the selected opportunity has the
\* greatest net profit of the qualifying pools, ties going to the lower fee
\* tier and then to the lowest pool identifier, whatever the order of visit.
C5_TieBreakByFeeThenId ==
    /\ \A k \in At("best") : \A j \in Qualifying :
          SpecPrefers(log[k].data.net_profit_bps, log[k].data.pool_fee_tier,
                      log[k].data.pool_address,
                      log[j].data.opp.net_profit_bps, log[j].data.opp.pool_fee_tier,
                      log[j].data.opp.pool_address)
    /\ \A k \in At("mm_select") : \A j \in Pushed :
          SpecPrefers(log[k].data.profit_delta_bps,
                      PoolFee(log[k].data.adjustment.pool),
                      log[k].data.adjustment.pool,
                      log[j].data.order.profit_delta_bps,
                      PoolFee(log[j].data.order.adjustment.pool),
                      log[j].data.order.adjustment.pool)

\* C5, amended: the selected opportunity has the greatest net profit of the
\* qualifying pools, and of several pools sharing that value it is the one
\* met first: in the arbitrager the first visited (the Hyperswap list in its
\* configured order, then the ProjectX list), in the market maker the first
\* in readjust's order (ascending spread_bps, then component order).
C5_FirstOfTheBestWins ==
    /\ \A k \in At("best") :
          \E j \in Qualifying :
             /\ log[j].data.opp = log[k].data
             /\ \A m \in Qualifying :
                   /\ FGe(log[j].data.opp.net_profit_bps,
                          log[m].data.opp.net_profit_bps)
                   /\ FEq(log[j].data.opp.net_profit_bps,
                          log[m].data.opp.net_profit_bps) => j <= m
    /\ \A k \in At("none") : log[k].data.why = "criteria" => Qualifying = {}
    /\ \A k \in At("mm_select") :
          \E j \in Pushed :
             /\ log[j].data.order = log[k].data
             /\ \A m \in Pushed :
                   /\ FGe(log[j].data.order.profit_delta_bps,
                          log[m].data.order.profit_delta_bps)
                   /\ FEq(log[j].data.order.profit_delta_bps,
                          log[m].data.order.profit_delta_bps) => j <= m

\* Two qualifying pools share the greatest net profit, the first visited has
\* the greater identifier, and it is the one selected.
C5_Witness ==
    \E k \in At("best") : \E j, m \in Qualifying :
       /\ j < m
       /\ FEq(log[j].data.opp.net_profit_bps, log[m].data.opp.net_profit_bps)
       /\ log[j].data.opp.pool_fee_tier = log[m].data.opp.pool_fee_tier
       /\ log[j].data.opp.pool_address > log[m].data.opp.pool_address
       /\ log[k].data = log[j].data.opp

\* The events of the log that evaluate, size, prepare or send.
Work == At("reference") \cup At("eval") \cup At("best") \cup At("size")
        \cup At("size_pair") \cup At("prepared") \cup At("tx")

\* A share of the two USD values lies outside [20%, 80%] of their total.
OutsideRange(v) ==
    LET total == v[1] + v[2]
    IN  \/ total <= 0
        \/ 100 * v[1] < 20 * total \/ 100 * v[1] > 80 * total
        \/ 100 * v[2] < 20 * total \/ 100 * v[2] > 80 * total

\* C6: on a tick where the inventory check of a double-leg target runs and
\* the base share or the quote share of the total USD value is outside
\* [20%, 80%], the target is skipped: nothing is evaluated, prepared or sent
\* for it; with both shares inside the range, its two ends included, the
\* check skips nothing.
C6_ImbalanceSkipsTarget ==
    \A k \in At("inventory") :
       /\ ~LogTarget.statistical_arb
       /\ k = 2
       /\ (log[k].data.ok /\ OutsideRange(log[k].data.values))
             => /\ Len(log) = 3
                /\ log[3] = Event("skip", [why |-> "inventory"])
                /\ Work = {}
       /\ (log[k].data.ok /\ ~OutsideRange(log[k].data.values))
             => \A j \in At("skip") : log[j].data.why # "inventory"

\* The check has run on shares of exactly 20% and 80%, and the target has
\* gone on to evaluate its pools.
C6_Witness ==
    /\ \E k \in At("inventory") :
          /\ log[k].data.ok
          /\ 100 * log[k].data.values[1] = 20 * (log[k].data.values[1] + log[k].data.values[2])
    /\ At("eval") # {}

\* The check has run on a wallet outside the range and the target is skipped.
C6_WitnessSkip ==
    \E k \in At("inventory") :
       /\ log[k].data.ok
       /\ OutsideRange(log[k].data.values)
       /\ At("skip") # {}

\* C7: when the reference-price source returns 0 or a negative value the tick
\* is skipped for the target: no spread is computed from the value, no
\* opportunity is evaluated and no trade is sent in that tick.
C7_NonPositiveReferenceSkipsTick ==
    \A k \in At("reference") :
       FLe(log[k].data.price, FInt(0))
          => \A j \in DOMAIN log :
                j > k => log[j].ev \notin {"eval", "best", "size", "size_pair",
                                          "prepared", "tx", "mm_eval", "mm_size",
                                          "mm_select", "mm_tx"}

\* C8: when the gas cost of the trade, in bps of its notional, brings the
\* net profit (|spread_bps| - fee_bps - gas_bps) below
\* min_executable_spread_bps, no transaction is sent for the opportunity.
C8_NoTradeWhenGasEatsProfit ==
    /\ \A k \in At("tx") :
          FGe(log[k].data.net_after_gas_bps, LogTarget.min_executable_spread_bps)
    /\ \A k \in At("mm_tx") :
          \A j \in At("mm_select") :
             FGe(log[j].data.profit_delta_bps, MMConfig.min_executable_spread_bps)

\* C9: no error other than an invalid configuration or the loss of the
\* protocol stream ends the monitoring loop or the task: after a failed
\* fetch, read, quote, execution or block-number/clock read the program is
\* still running and goes on to the next block update.
C9_LoopSurvivesEveryError ==
    /\ pc # "panicked"
    /\ mpc # "panicked"

\* The step an event belongs to: 1 evaluation, 2 sizing, 3 emission.
Step(e) ==
    IF e.ev \in {"eval", "best", "mm_eval"} THEN 1
    ELSE IF e.ev \in {"size", "size_pair", "mm_size", "mm_drop", "mm_select"} THEN 2
    ELSE IF e.ev \in {"tx", "prepared", "mm_prepare", "mm_tx"} THEN 3
    ELSE 0

StepsInOrder ==
    /\ \A i, j \in DOMAIN log :
          (i < j /\ Step(log[i]) > 0 /\ Step(log[j]) > 0)
             => Step(log[i]) <= Step(log[j])
    /\ \A j \in DOMAIN log :
          Step(log[j]) > 1 => \E i \in 1..(j - 1) : Step(log[i]) = Step(log[j]) - 1
                                                    \/ Step(log[i]) = Step(log[j])

\* Nothing of a block update is left in progress where the next one is awaited.
NothingInProgress ==
    /\ pc \in {"poll", "sleep"}
          => /\ ti = 0 /\ pi = 0
             /\ best_opportunity = None /\ all_opportunities = <<>>
    /\ mpc = "stream" => log = <<>> /\ orders = <<>>

\* C10: within one task the steps of a block update run in the order
\* evaluation, sizing, emission (for each target it covers), all of them are
\* complete before the next block update starts to be processed, and the
\* block being processed changes only between two runs.
C10_StepsInOrderThenNextUpdate ==
    [][/\ StepsInOrder'
       /\ NothingInProgress'
       /\ current' # current => pc = "poll" /\ NothingInProgress
       /\ (mpc = "stream" /\ mpc' \notin {"stream", "connect"})
             => NothingInProgress]_vars

\* A block update after the first one has been evaluated, sized and sent.
C10_Witness ==
    /\ At("eval") # {} /\ At("size") # {} /\ At("tx") # {}
    /\ last # None /\ current > last[1] + 1

\* A step of the target's iteration is blocked: the awaited call never returns.
Blocked(t) == pc = "hung" /\ ti = t

\* C11: every target is run by its own task, so a blocked step of one target
\* never prevents the evaluation of another: while a call made for one
\* target of several has not returned, the program can still take a step.
C11_TargetsRunIndependently ==
    \A t \in 1..Len(Targets) :
       (Blocked(t) /\ Len(Targets) > 1) => ENABLED <<Next>>_vars

\* C12: the elapsed-time test of a poll is made on the time that has really
\* passed: with a block newer than the last recorded one, the run is started
\* exactly when more than `interval` ms have passed since `time` was taken,
\* whatever adjustment the wall clock has undergone, and the loop does not
\* stop.
C12_ElapsedTestIsMonotonic ==
    \A k \in At("poll") :
       LET d == log[k].data IN
       (d.ok /\ d.last # None)
          => /\ pc # "panicked"
             /\ (pc = "target") <=> (d.real > interval /\ d.block > d.last[1])

\* C13: every call to an external collaborator is bounded by a timeout: no
\* call is awaited for ever, so the task is never left waiting on a
\* collaborator that does not answer (the tick is skipped instead and later
\* block updates are processed).
C13_EveryCallTimesOut ==
    /\ pc # "hung"
    /\ \A k \in At("await") : Len(log) > k

\* C14 as the specification states it: in every prepared trade the approval
\* request and the swap request leave the nonce unset.
C14_NonceLeftUnset ==
    \A k \in At("mm_prepare") :
       /\ log[k].data.swap.nonce = None
       /\ \A i \in DOMAIN log[k].data.approve : log[k].data.approve[i].nonce = None

\* C14, amended: the core sets the nonce of every request it prepares from
\* the transaction count read with the inventory of the tick: the approval
\* carries that count and the swap the count plus one, or the count itself
\* when no approval is prepared (infinite_approval).
C14_NonceFromInventory ==
    \A k \in At("mm_prepare") :
       /\ k > 1 /\ log[k - 1].ev = "mm_inventory"
       /\ LET n == log[k - 1].data.nonce
              trade == log[k].data
              direct == TradeTxRequest(TRUE, trade.swap.order, log[k - 1].data)
          IN  /\ trade.approve # <<>> <=> ~MMConfig.infinite_approval
              /\ \A i \in DOMAIN trade.approve : trade.approve[i].nonce = Some(n)
              /\ trade.swap.nonce = Some(n + Len(trade.approve))
              /\ direct.approve = <<>> /\ direct.swap.nonce = Some(n)

\* A trade with an approval and a swap has been prepared.
C14_Witness ==
    \E k \in At("mm_prepare") :
       /\ log[k].data.approve # <<>>
       /\ log[k].data.swap.nonce # None

\* The call made last, and whether it is a call of fn.
IsCall(fn) == lastCall # None /\ lastCall[1].fn = fn

\* C15: a position is in range exactly when tick_lower <= current_tick <
\* tick_upper, below range (all token0) exactly when current_tick <
\* tick_lower and above range (all token1) exactly when current_tick >=
\* tick_upper, and every function that classifies a position or gives its
\* split agrees, also at current_tick = tick_lower and = tick_upper.
C15_RangeClassification ==
    lastCall # None =>
       LET a == lastCall[1].args
           r == lastCall[1].result
           below == a.current_tick < a.tick_lower
           above == a.current_tick >= a.tick_upper
           inside == a.tick_lower <= a.current_tick /\ a.current_tick < a.tick_upper
       IN  /\ IsCall("is_position_in_range") => (r <=> inside)
           /\ IsCall("calculate_position_ratio")
                 => /\ (r = <<F(1, 1), F(0, 1)>>) <=> below
                    /\ (r = <<F(0, 1), F(1, 1)>>) <=> above
           /\ IsCall("calculate_position_amounts")
                 => /\ (r.status = "BelowRange") <=> below
                    /\ (r.status = "AboveRange") <=> above
                    /\ (r.status = "InRange") <=> inside
                    /\ below => (r.amount0 > 0 /\ r.amount1 = 0)
                    /\ above => (r.amount0 = 0 /\ r.amount1 > 0)

\* C16: the tick spacing resolved from a fee is 1 for 100, 10 for 500, 60 for
\* 3000, 200 for 10000 and, with a warning, 10 for any other fee; the
\* rebalance planner and position minting resolve the same spacing.
C16_TickSpacingOfFee ==
    (IsCall("get_tick_spacing_for_fee") \/ IsCall("mint_new_position")) =>
       LET fee == lastCall[1].args.fee
           r == lastCall[1].result
           known == fee \in {100, 500, 3000, 10000}
       IN  /\ fee = 100 => r.spacing = 1
           /\ fee = 500 => r.spacing = 10
           /\ fee = 3000 => r.spacing = 60
           /\ fee = 10000 => r.spacing = 200
           /\ ~known => (r.spacing = 10 /\ r.warned)
           /\ r.spacing = get_tick_spacing_for_fee(fee).spacing
           /\ r.spacing = mint_tick_spacing(fee).spacing

\* C17: for every tick t of [-700000, 700000] and every pair of token
\* decimals, equal or not, price_to_tick(tick_to_price(t, dec0, dec1), dec0,
\* dec1) = t, and tick_to_price maps no two ticks of the interval to one price.
C17_PriceTickRoundTrip ==
    /\ IsCall("price_to_tick") => lastCall[1].result.tick = lastCall[1].args.tick
    /\ IsCall("price_to_tick") =>
          \A t \in RoundTripTicks :
             t # lastCall[1].args.tick =>
                tick_to_price(t, lastCall[1].args.dec0, lastCall[1].args.dec1) # lastCall[1].result.price

\* C18: before it is ready the orchestrator evaluates nothing and emits no
\* trade, and whenever it is ready (Steady) every pair announced by the first
\* message of the current stream connection and not removed since is among
\* its components, also when the reference price was unavailable at that
\* first message and after a reconnection.
C18_SteadyHoldsTheSnapshot ==
    /\ ~ready => /\ readjusments = <<>>
                 /\ orders = <<>>
                 /\ At("mm_eval") = {}
                 /\ At("mm_prepare") = {}
    /\ ready => announced \subseteq Elems(components)

\* C19: a pool the bootstrap filtered out for its deviation from the reference
\* price is never a target of a Steady evaluation.
C19_FilteredPoolIsNoTarget ==
    \A k \in At("mm_eval") : log[k].data.pool \notin filtered

\* The poll test of the market maker: it skips below poll_interval_ms, goes on
\* to the reference price from poll_interval_ms on, and last_poll advances
\* (sincePoll falls) only when it goes on.
MMPollGate ==
    /\ mpc = "polling" =>
          IF sincePoll < MMConfig.poll_interval_ms
          THEN /\ log' = <<Event("mm_skip", [why |-> "poll_interval"])>>
               /\ mpc' = "done"
               /\ sincePoll' = sincePoll
               /\ UNCHANGED <<previous_reference_price, readjusments, orders>>
          ELSE /\ sincePoll' = 0
               /\ log' # <<>>
               /\ \/ log'[1].ev = "reference"
                  \/ /\ log'[1].ev = "mm_skip"
                     /\ log'[1].data.why \in {"reference", "price_move"}
    /\ sincePoll' < sincePoll =>
          (mpc = "polling" /\ sincePoll >= MMConfig.poll_interval_ms)

\* The poll test of the arbitrager: run starts only when the time since the
\* last run (or the start) has reached the poll_interval_ms of its targets.
ArbPollGate ==
    (pc = "poll" /\ pc' = "target") =>
       \A t \in 1..Len(Targets) : elapsedReal >= Targets[t].poll_interval_ms

\* C20: in Steady an update arriving less than poll_interval_ms after the last
\* update that passed the poll test fetches no reference price, evaluates and
\* emits nothing; one arriving poll_interval_ms or more after it is processed;
\* last_poll advances only when an update is processed.
C20_PollIntervalGatesUpdates == [][MMPollGate /\ ArbPollGate]_vars

\* The same of the market maker alone.
MMPollIntervalGatesUpdates == [][MMPollGate]_vars

\* C21: in Steady a reference price that moved by less than the threshold
\* from the previous one ends the tick with nothing published, evaluated,
\* sized or traded; a move equal to or greater than the threshold goes on to
\* the evaluation.
C21_PriceMoveGatesTheTick ==
    [][(mpc = "polling" /\ log' # <<>>) =>
          /\ (log'[1].ev = "mm_skip" /\ log'[1].data.why = "price_move") =>
                /\ FLt(price_move_bps(log'[1].data.price), FInt(PRICE_MOVE_THRESHOLD))
                /\ mpc' = "done"
                /\ Len(log') = 1
                /\ UNCHANGED <<previous_reference_price, readjusments, orders>>
          /\ log'[1].ev = "reference" =>
                FGe(price_move_bps(log'[1].data.price), FInt(PRICE_MOVE_THRESHOLD))]_vars

\* C22: the inventory check of a double-leg target runs in every window of
\* INVENTORY_CHECK_INTERVAL_BLOCKS consecutive blocks, whatever blocks the
\* polling loop observes.  Such a window holds exactly one multiple of the
\* interval and the check runs only in a run on a multiple, so no multiple may
\* lie strictly between the last recorded block and the block run is called on.
C22_InventoryCheckedEveryWindow ==
    [][(pc = "poll" /\ pc' = "target") =>
          \A m \in (last[1] + 1)..(current' - 1) :
             m % INVENTORY_CHECK_INTERVAL_BLOCKS # 0]_vars

\* C23: an opportunity is dropped for a failed AMM quote only after the quote
\* was attempted a second time; the quote is never attempted more than twice,
\* and after such a drop the remaining opportunities of the tick are still
\* sized: every adjustment of the tick has its sizing or its drop in the log.
C23_QuoteRetriedOnce ==
    /\ \A k \in At("mm_drop") :
          /\ log[k].data.quotes <= 2
          /\ log[k].data.why = "quote_err" => log[k].data.quotes = 2
    /\ (\E k \in At("mm_drop") : log[k].data.why = "quote_err") =>
          \A i \in 1..Len(readjusments) :
             \E k \in At("mm_drop") \cup At("mm_size") :
                IF log[k].ev = "mm_drop" THEN log[k].data.pool = readjusments[i].pool
                ELSE log[k].data.order.adjustment.pool = readjusments[i].pool

\* The unaligned tick u and the target tick t of the planner: t is the floor
\* of u on the grid of the spacing.
FloorAligned(t, u, spacing) ==
    /\ t % spacing = 0
    /\ t <= u
    /\ u - t < spacing

\* C24: the planner's target ticks are floor((t_cur - half) / spacing) * spacing
\* and floor((t_cur + half) / spacing) * spacing, rounding toward minus
\* infinity: multiples of the spacing, not above the unaligned tick and less
\* than one spacing below it, also for a negative unaligned tick.
C24_TargetTicksAreFloored ==
    IsCall("calculate_rebalancing_with_wallet") =>
       LET a == lastCall[1].args
           r == lastCall[1].result
       IN  /\ FloorAligned(r.target_tick_lower, a.current_tick - r.half_range_ticks,
                           r.tick_spacing)
           /\ FloorAligned(r.target_tick_upper, a.current_tick + r.half_range_ticks,
                           r.tick_spacing)

\* C25: the range the planner returns is never collapsed: the upper target
\* tick is at least one spacing above the lower one, for every current tick,
\* target_range_bps and fee.
C25_RangeNeverCollapsed ==
    IsCall("calculate_rebalancing_with_wallet") =>
       LET r == lastCall[1].result
       IN  r.target_tick_upper - r.target_tick_lower >= r.tick_spacing

\* C26: when total_value_usd is not positive the planner's result requests no
\* swap: no swap direction and no swap amount other than zero.
C26_NoValueNoSwap ==
    IsCall("calculate_rebalancing_with_wallet") =>
       LET r == lastCall[1].result
       IN  FLe(r.total_value_usd, FInt(0)) =>
              /\ r.swap_direction = "NoSwapNeeded"
              /\ FEq(r.swap_amount_token0, FInt(0))
              /\ FEq(r.swap_amount_token1, FInt(0))

\* C27: a trade whose simulation was run and failed is never submitted:
\* neither its approval nor its swap is sent, under the default broadcast and
\* under the Mainnet bundle broadcast.
C27_FailedSimulationNotSent ==
    \A k \in At("mm_simulated") : ~log[k].data.status => At("mm_tx") = {}

\* C28: when the prepared trade carries an approval, the approval has nonce n
\* and the swap nonce n + 1, and the swap is sent only after the approval of
\* the same trade was sent: no swap with nonce n + 1 goes out while no
\* transaction with nonce n has.
C28_SwapOnlyAfterApproval ==
    \A p \in At("mm_prepare") :
       log[p].data.approve # <<>> =>
          /\ log[p].data.swap.nonce[1] = log[p].data.approve[1].nonce[1] + 1
          /\ \A k \in At("mm_tx") :
                log[k].data.kind = "swap" =>
                   \E j \in At("mm_tx") :
                      /\ j < k
                      /\ log[j].data.kind = "approval"
                      /\ log[j].data.nonce[1] + 1 = log[k].data.nonce[1]

\* C29: whatever the polls return, run is invoked only with a recorded block
\* number and only for a block number greater than the recorded one, never
\* for the first block observed; when run returns its block number is
\* recorded, and the recorded number only ever grows: the block numbers of the
\* runs are strictly increasing, one run per block number at most.
C29_RunBlocksStrictlyIncrease ==
    [][/\ (pc = "poll" /\ pc' = "target") => (last # None /\ current' > last[1])
       /\ (pc \in {"target", "pool", "decide"} /\ pc' = "sleep") => last' = Some(current)
       /\ (pc \in {"target", "pool", "decide"}) => current' = current
       /\ (last # None /\ last' # last) =>
             (last' # None /\ last'[1] > last[1])]_vars

\* run was invoked for block 11 after block 10 had been recorded.
C29_Witness ==
    /\ pc = "target"
    /\ ti = 1
    /\ last = Some(10)
    /\ current = 11

\* C30: no single-leg swap is sent and no double-leg trade is prepared at a
\* gas price, in wei, strictly greater than max_gas_price_gwei * 10^9 (the gas
\* price being counted in the model's units of WeiUnitsPerGwei to the gwei).
C30_NoTradeAboveMaxGasPrice ==
    \A k \in At("tx") \cup At("prepared") :
       ~FGt(FInt(log[k].data.gas_price_wei),
            FMul(max_gas_price_gwei, FInt(WeiUnitsPerGwei)))

=============================================================================
